---- MODULE Spec2Model ----
(***************************************************************************)
(* Model of the URL state synchronisation core of sw-color-tester:         *)
(* the VarInt / Base85 codec and the mixed-token compressor                *)
(* (utils/numeric-encoding.js), the URL parameter transport                *)
(* (URLParameterManager), the catalog queries (ColorModel) and the state   *)
(* store (AppState).                                                       *)
(*                                                                         *)
(* A JavaScript string is modelled as a sequence of one-character strings, *)
(* so that split, join, startsWith, parseInt and String() are computed     *)
(* character by character.  A JavaScript Set is modelled as a sequence     *)
(* without duplicates, in insertion order.                                 *)
(***************************************************************************)
EXTENDS Integers, Sequences, FiniteSets, TLC

VARIABLES
  favorites,    \* AppState.favorites (Set, in insertion order)
  hidden,       \* AppState.hidden (Set, in insertion order)
  colorModel,   \* AppState.colorModel: the catalog (colorData) or NoModel
  search,       \* globalThis.location.search, as the map parameter -> raw (encoded) value
  pathname,     \* globalThis.location.pathname
  historyLen,   \* number of entries of globalThis.history
  lastOp,       \* the name of the last AppState method called ("none" after construction)
  input,        \* codec development: the argument of the function under study
  middle,       \* codec development: the encoded form
  output,       \* codec development: the decoded form
  pc            \* codec development: position in the encode/decode pipeline

vars == <<favorites, hidden, colorModel, search, pathname, historyLen, lastOp,
          input, middle, output, pc>>

appVars == <<favorites, hidden, colorModel, search, pathname, historyLen, lastOp>>
codecVars == <<input, middle, output, pc>>

(***************************************************************************)
(* Strings                                                                 *)
(***************************************************************************)
Range(s) == {s[i] : i \in 1..Len(s)}

DigitChars == <<"0", "1", "2", "3", "4", "5", "6", "7", "8", "9">>

IsDigit(c) == c \in Range(DigitChars)

DigitVal(c) == (CHOOSE i \in 1..10 : DigitChars[i] = c) - 1

\* the JavaScript value undefined, as an array element
Undefined == <<"undefined">>

\* s.startsWith(p)
StartsWith(s, p) == /\ Len(s) >= Len(p)
                    /\ SubSeq(s, 1, Len(p)) = p

\* a substring that starts one character late
SubstringOneLate(s, n) == SubSeq(s, n + 2, Len(s))

\* s.substring(n)
Substring(s, n) == SubSeq(s, n + 1, Len(s))

\* s.includes(c) for a one-character c
Includes(s, c) == c \in Range(s)

\* s.split(sep) for a one-character separator: always at least one part
RECURSIVE SplitFrom(_, _, _, _)
SplitFrom(s, sep, k, cur) ==
  IF k > Len(s) THEN <<cur>>
  ELSE IF s[k] = sep THEN <<cur>> \o SplitFrom(s, sep, k + 1, <<>>)
  ELSE SplitFrom(s, sep, k + 1, Append(cur, s[k]))

Split(s, sep) == SplitFrom(s, sep, 1, <<>>)

\* list.join(sep)
RECURSIVE Join(_, _)
Join(list, sep) ==
  IF Len(list) = 0 THEN <<>>
  ELSE IF Len(list) = 1 THEN list[1]
  ELSE list[1] \o <<sep>> \o Join(Tail(list), sep)

\* s.trim() === "" : only white space
IsBlank(s) == \A i \in 1..Len(s) : s[i] = " "

\* list.filter(p) for lists of strings
RECURSIVE FilterNonBlank(_)
FilterNonBlank(list) ==
  IF Len(list) = 0 THEN <<>>
  ELSE IF IsBlank(list[1]) THEN FilterNonBlank(Tail(list))
  ELSE <<list[1]>> \o FilterNonBlank(Tail(list))

\* Number.parseInt(s, 10): optional sign, then the longest prefix of digits;
\* NaN when there is no digit
RECURSIVE ParseDigits(_, _, _)
ParseDigits(s, k, acc) ==
  IF k > Len(s) \/ ~IsDigit(s[k]) THEN acc
  ELSE ParseDigits(s, k + 1, acc * 10 + DigitVal(s[k]))

ParseInt(s) ==
  LET neg  == Len(s) > 0 /\ s[1] = "-"
      body == IF neg THEN Tail(s) ELSE s
  IN IF Len(body) = 0 \/ ~IsDigit(body[1]) THEN [nan |-> TRUE, val |-> 0]
     ELSE [nan |-> FALSE,
           val |-> IF neg THEN 0 - ParseDigits(body, 1, 0) ELSE ParseDigits(body, 1, 0)]

\* String(n) for an integer n
RECURSIVE NatToString(_)
NatToString(n) ==
  IF n < 10 THEN <<DigitChars[n + 1]>>
  ELSE Append(NatToString(n \div 10), DigitChars[(n % 10) + 1])

String(n) ==
  IF n >= 0 THEN NatToString(n)
  ELSE LET d == (10 - (n % 10)) % 10      \* the last digit of -n
           r == (n + d) \div 10           \* -(the other digits of -n)
       IN <<"-">> \o (IF r = 0 THEN <<>> ELSE NatToString(0 - r)) \o <<DigitChars[d + 1]>>

BrightPrefix == <<"b", "r", "i", "g", "h", "t", "-">>

(***************************************************************************)
(* VarInt numeric codec                                                    *)
(***************************************************************************)
\* a thrown Error / a returned value
Throw == [err |-> TRUE, val |-> <<>>]
Return(v) == [err |-> FALSE, val |-> v]

\* no result yet
NoValue == [err |-> FALSE, val |-> <<>>]

MarkerByte1 == 254
MarkerByte2 == 0

\* an encoder without the final size test: the top bits of a large number
\* are cut off and four bytes are written
VarIntBytesTruncating(num) ==
  IF num < 128 THEN <<num>>
  ELSE IF num < 16384 THEN <<128 + (num \div 128), num % 128>>
  ELSE IF num < 2097152 THEN
    <<128 + (num \div 16384), 128 + ((num \div 128) % 128), num % 128>>
  ELSE
    <<128 + ((num \div 2097152) % 128), 128 + ((num \div 16384) % 128),
      128 + ((num \div 128) % 128), num % 128>>

\* the bytes written for one number, or <<-1>> for "Number too large to encode"
VarIntBytes(num) ==
  IF num < 128 THEN <<num>>
  ELSE IF num < 16384 THEN <<128 + (num \div 128), num % 128>>
  ELSE IF num < 2097152 THEN
    <<128 + (num \div 16384), 128 + ((num \div 128) % 128), num % 128>>
  ELSE IF num < 268435456 THEN
    <<128 + (num \div 2097152), 128 + ((num \div 16384) % 128),
      128 + ((num \div 128) % 128), num % 128>>
  ELSE <<-1>>

RECURSIVE EncodeLoop(_, _, _)
EncodeLoop(ids, k, buffer) ==
  IF k > Len(ids) THEN Return(buffer)
  ELSE
    LET id == ids[k]
        hasBrightPrefix == StartsWith(id, BrightPrefix)
        num == IF hasBrightPrefix THEN ParseInt(Substring(id, 7)) ELSE ParseInt(id)
        marker == IF hasBrightPrefix THEN <<MarkerByte1, MarkerByte2>> ELSE <<>>
    IN IF num.nan \/ num.val < 0 THEN Throw
       ELSE IF VarIntBytes(num.val) = <<-1>> THEN Throw
       ELSE EncodeLoop(ids, k + 1, buffer \o marker \o VarIntBytes(num.val))

encodeNumericIds(ids) ==
  IF Len(ids) = 0 THEN Return(<<>>) ELSE EncodeLoop(ids, 1, <<>>)

\* (num << 7) | (byte & 0x7f) on 32-bit signed integers, for 0 <= num < 2^28
ShiftIn(num, byte) ==
  LET low == num % 16777216
      bit24 == (num \div 16777216) % 2
      shifted == IF bit24 = 1 THEN (low * 128 - 2147483647) - 1 ELSE low * 128
  IN shifted + (byte % 128)

\* a reader that takes the end of the buffer for the end of the number
RECURSIVE ReadContinuationPastEnd(_, _, _, _)
ReadContinuationPastEnd(buffer, i, num, byteCount) ==
  IF i > Len(buffer) THEN [err |-> FALSE, num |-> num, i |-> i]
  ELSE
    LET byte == buffer[i]
        n2 == ShiftIn(num, byte)
    IN IF byte < 128 THEN [err |-> FALSE, num |-> n2, i |-> i + 1]
       ELSE IF byteCount + 1 > 4 THEN [err |-> TRUE, num |-> 0, i |-> i + 1]
       ELSE ReadContinuationPastEnd(buffer, i + 1, n2, byteCount + 1)

\* the while (true) loop reading the continuation bytes of one number
RECURSIVE ReadContinuation(_, _, _, _)
ReadContinuation(buffer, i, num, byteCount) ==
  IF i > Len(buffer) THEN [err |-> TRUE, num |-> 0, i |-> i]
  ELSE
    LET byte == buffer[i]
        n2 == ShiftIn(num, byte)
    IN IF byte < 128 THEN [err |-> FALSE, num |-> n2, i |-> i + 1]
       ELSE IF byteCount + 1 > 4 THEN [err |-> TRUE, num |-> 0, i |-> i + 1]
       ELSE ReadContinuation(buffer, i + 1, n2, byteCount + 1)

\* i is the 1-based position of the next unread byte
RECURSIVE DecodeLoop(_, _, _)
DecodeLoop(buffer, i, ids) ==
  IF i > Len(buffer) THEN Return(ids)
  ELSE
    LET hasBrightPrefix == /\ buffer[i] = MarkerByte1
                           /\ i + 1 <= Len(buffer)
                           /\ buffer[i + 1] = MarkerByte2
        j == IF hasBrightPrefix THEN i + 2 ELSE i
    IN IF j > Len(buffer) THEN Throw
       ELSE
         LET firstByte == buffer[j]
             r == IF firstByte < 128
                  THEN [err |-> FALSE, num |-> firstByte, i |-> j + 1]
                  ELSE ReadContinuation(buffer, j + 1, firstByte % 128, 1)
         IN IF r.err THEN Throw
            ELSE DecodeLoop(buffer, r.i,
                            Append(ids, IF hasBrightPrefix
                                        THEN BrightPrefix \o String(r.num)
                                        ELSE String(r.num)))

decodeNumericIds(buffer) ==
  IF Len(buffer) = 0 THEN Return(<<>>) ELSE DecodeLoop(buffer, 1, <<>>)

(***************************************************************************)
(* Base85 transcoder                                                       *)
(***************************************************************************)
\* the character U+0060 (grave accent), which a string literal cannot hold
Grave == "U+0060"

BASE85_CHARS == <<
  "0", "1", "2", "3", "4", "5", "6", "7", "8", "9", "A", "B", "C",
  "D", "E", "F", "G", "H", "I", "J", "K", "L", "M", "N", "O", "P",
  "Q", "R", "S", "T", "U", "V", "W", "X", "Y", "Z", "a", "b", "c",
  "d", "e", "f", "g", "h", "i", "j", "k", "l", "m", "n", "o", "p",
  "q", "r", "s", "t", "u", "v", "w", "x", "y", "z", "!", "#", "$",
  "%", "&", "(", ")", "*", "+", "-", ";", "<", "=", ">", "?", "@",
  "^", "_", Grave, "{", "|", "}", "~">>

\* An exact non-negative integer above 2^31 is kept as <<high, low>> with
\* value high * 65536 + low, 0 <= low < 65536 (JavaScript numbers are exact
\* to 2^53; the values here stay below 85^5).
Wide(n) == <<n \div 65536, n % 65536>>

\* value * m + a, for m <= 256
WideMulAdd(w, m, a) ==
  LET lo == w[2] * m + a
  IN <<w[1] * m + (lo \div 65536), lo % 65536>>

\* value % d, for d <= 256
WideMod(w, d) == ((w[1] % d) * 65536 + w[2]) % d

\* Math.floor(value / d), for d <= 256
WideDiv(w, d) ==
  <<w[1] \div d, ((w[1] % d) * 65536 + w[2]) \div d>>

\* buffer[i .. i + byteCount - 1] packed big-endian
RECURSIVE PackBytes(_, _, _, _)
PackBytes(buffer, i, byteCount, value) ==
  IF byteCount = 0 THEN value
  ELSE PackBytes(buffer, i + 1, byteCount - 1, WideMulAdd(value, 256, buffer[i]))

\* the digits left in the order of their computation (least significant first)
RECURSIVE Base85DigitsUnreversed(_, _)
Base85DigitsUnreversed(value, digitCount) ==
  IF digitCount = 0 THEN <<>>
  ELSE <<BASE85_CHARS[WideMod(value, 85) + 1]>>
       \o Base85DigitsUnreversed(WideDiv(value, 85), digitCount - 1)

\* the digitCount base-85 digits of value, most significant first
RECURSIVE Base85Digits(_, _)
Base85Digits(value, digitCount) ==
  IF digitCount = 0 THEN <<>>
  ELSE Append(Base85Digits(WideDiv(value, 85), digitCount - 1),
              BASE85_CHARS[WideMod(value, 85) + 1])

Min(a, b) == IF a < b THEN a ELSE b

RECURSIVE ToBase85Loop(_, _)
ToBase85Loop(buffer, i) ==
  IF i > Len(buffer) THEN <<>>
  ELSE
    LET byteCount == Min(4, Len(buffer) - i + 1)
        value == PackBytes(buffer, i, byteCount, Wide(0))
    IN Base85Digits(value, byteCount + 1) \o ToBase85Loop(buffer, i + 4)

toBase85(buffer) == IF Len(buffer) = 0 THEN <<>> ELSE ToBase85Loop(buffer, 1)

\* char in charMap
InCharMap(c) == c \in Range(BASE85_CHARS)

\* charMap[char]
charMap(c) == (CHOOSE i \in 1..85 : BASE85_CHARS[i] = c) - 1

RECURSIVE UnpackDigits(_, _, _, _)
UnpackDigits(str, i, chunkLen, value) ==
  IF chunkLen = 0 THEN value
  ELSE UnpackDigits(str, i + 1, chunkLen - 1, WideMulAdd(value, 85, charMap(str[i])))

\* byteCount bytes of value, big-endian (bytes.unshift(value % 256))
RECURSIVE ExtractBytes(_, _)
ExtractBytes(value, byteCount) ==
  IF byteCount = 0 THEN <<>>
  ELSE Append(ExtractBytes(WideDiv(value, 256), byteCount - 1), WideMod(value, 256))

\* a decoder that reads a character it does not know as the digit 0
LenientDigit(c) == IF InCharMap(c) THEN charMap(c) ELSE 0

RECURSIVE UnpackDigitsLenient(_, _, _, _)
UnpackDigitsLenient(str, i, chunkLen, value) ==
  IF chunkLen = 0 THEN value
  ELSE UnpackDigitsLenient(str, i + 1, chunkLen - 1,
                           WideMulAdd(value, 85, LenientDigit(str[i])))

RECURSIVE FromBase85LoopLenient(_, _)
FromBase85LoopLenient(str, i) ==
  IF i > Len(str) THEN Return(<<>>)
  ELSE
    LET chunkLen == Min(5, Len(str) - i + 1)
        value == UnpackDigitsLenient(str, i, chunkLen, Wide(0))
        rest == FromBase85LoopLenient(str, i + 5)
    IN Return(ExtractBytes(value, chunkLen - 1) \o rest.val)

RECURSIVE FromBase85Loop(_, _)
FromBase85Loop(str, i) ==
  IF i > Len(str) THEN Return(<<>>)
  ELSE
    LET chunkLen == Min(5, Len(str) - i + 1)
    IN IF \E j \in i..(i + chunkLen - 1) : ~InCharMap(str[j]) THEN Throw
       ELSE
         LET value == UnpackDigits(str, i, chunkLen, Wide(0))
             rest == FromBase85Loop(str, i + 5)
         IN IF rest.err THEN Throw
            ELSE Return(ExtractBytes(value, chunkLen - 1) \o rest.val)

fromBase85(str) == IF Len(str) = 0 THEN Return(<<>>) ELSE FromBase85Loop(str, 1)

(***************************************************************************)
(* Mixed-token compressor                                                  *)
(***************************************************************************)
RECURSIVE SelectTokens(_, _)
\* the subsequence of ids that are group identifiers (groups = TRUE) or
\* numeric ids (groups = FALSE)
SelectTokens(ids, groups) ==
  IF Len(ids) = 0 THEN <<>>
  ELSE IF Includes(ids[1], ":") = groups
       THEN <<ids[1]>> \o SelectTokens(Tail(ids), groups)
       ELSE SelectTokens(Tail(ids), groups)

\* a mask that marks every token as numeric
PositionsAllNumeric(ids) == [k \in 1..Len(ids) |-> "n"]

Positions(ids) == [k \in 1..Len(ids) |-> IF Includes(ids[k], ":") THEN "g" ELSE "n"]

compressIds(ids) ==
  IF Len(ids) = 0 THEN Return(<<>>)
  ELSE
    LET numericIds == SelectTokens(ids, FALSE)
        groupIds == SelectTokens(ids, TRUE)
        binary == encodeNumericIds(numericIds)
        numericPart == IF Len(numericIds) > 0 THEN toBase85(binary.val) ELSE <<>>
        groupPart == IF Len(groupIds) > 0 THEN <<".">> \o Join(groupIds, ",") ELSE <<>>
        maskPart == IF Len(numericIds) > 0 /\ Len(groupIds) > 0
                    THEN <<".">> \o Positions(ids) ELSE <<>>
    IN IF Len(numericIds) > 0 /\ binary.err THEN Throw
       ELSE Return(numericPart \o groupPart \o maskPart)

\* fromBase85 followed by decodeNumericIds, inside the try block
DecodeNumericPart(numericPart) ==
  LET binary == fromBase85(numericPart)
  IN IF binary.err THEN Throw ELSE decodeNumericIds(binary.val)

\* the reconstruction loop over the position mask
RECURSIVE Reconstruct(_, _, _, _, _)
Reconstruct(positions, k, numericIds, groupIds, idx) ==
  IF k > Len(positions) THEN <<>>
  ELSE IF positions[k] = "n"
  THEN <<IF idx[1] + 1 <= Len(numericIds) THEN numericIds[idx[1] + 1] ELSE Undefined>>
       \o Reconstruct(positions, k + 1, numericIds, groupIds, <<idx[1] + 1, idx[2]>>)
  ELSE <<IF idx[2] + 1 <= Len(groupIds) THEN groupIds[idx[2] + 1] ELSE Undefined>>
       \o Reconstruct(positions, k + 1, numericIds, groupIds, <<idx[1], idx[2] + 1>>)

decompressIds(compressed) ==
  IF Len(compressed) = 0 THEN Return(<<>>)
  ELSE
    LET parts == Split(compressed, ".")
        numericIds == IF Len(parts[1]) > 0 THEN DecodeNumericPart(parts[1]) ELSE Return(<<>>)
        groupIds == IF Len(parts) >= 2 /\ Len(parts[2]) > 0 THEN Split(parts[2], ",") ELSE <<>>
    IN IF numericIds.err THEN Throw
       ELSE IF Len(parts) = 1 THEN numericIds
       ELSE IF Len(parts) = 2 THEN Return(numericIds.val \o groupIds)
       ELSE Return(Reconstruct(parts[3], 1, numericIds.val, groupIds, <<0, 0>>))

(***************************************************************************)
(* ColorModel: catalog queries                                             *)
(***************************************************************************)
\* a color record of colorData
Color(id, families, categories, archived) ==
  [id |-> id, colorFamilyNames |-> families,
   brandedCollectionNames |-> categories, archived |-> archived]

\* AppState.colorModel when no catalog was given (null)
NoModel == <<>>

getActiveColors(colorData) == SelectSeq(colorData, LAMBDA c : ~c.archived)

\* colors.map((color) => color.id)
ColorIds(colors) == [k \in 1..Len(colors) |-> colors[k].id]

\* the groups a color is filed under: families use the primary (first) name,
\* categories use all
GroupsOf(color, groupType) ==
  IF groupType = "family"
  THEN (IF Len(color.colorFamilyNames) = 0 THEN <<>> ELSE <<color.colorFamilyNames[1]>>)
  ELSE color.brandedCollectionNames

\* append the elements of list that are not yet in acc (insertion order)
\* an array push in place of Set.add: nothing is deduplicated
AddAllNoDedup(acc, list) == acc \o list

RECURSIVE AddAll(_, _)
AddAll(acc, list) ==
  IF Len(list) = 0 THEN acc
  ELSE AddAll(IF list[1] \in Range(acc) THEN acc ELSE Append(acc, list[1]), Tail(list))

\* Object.keys(allGroups): the group names in order of first appearance
RECURSIVE GroupKeys(_, _, _)
GroupKeys(colors, groupType, acc) ==
  IF Len(colors) = 0 THEN acc
  ELSE GroupKeys(Tail(colors), groupType, AddAll(acc, GroupsOf(colors[1], groupType)))

\* allGroups[groupName]
GroupColors(colors, groupType, groupName) ==
  SelectSeq(colors, LAMBDA c : groupName \in Range(GroupsOf(c, groupType)))

\* the groups with at least one active color in hiddenIds (some instead of every)
getHiddenGroupsAny(colorData, groupType, hiddenIds) ==
  LET colors == getActiveColors(colorData)
      keys == GroupKeys(colors, groupType, <<>>)
      partly(name) == \E k \in 1..Len(colors) :
                        /\ name \in Range(GroupsOf(colors[k], groupType))
                        /\ colors[k].id \in Range(hiddenIds)
      picked == SelectSeq(keys, partly)
  IN [k \in 1..Len(picked) |->
        [name |-> picked[k], count |-> Len(GroupColors(colors, groupType, picked[k]))]]

RECURSIVE HiddenGroupsOf(_, _, _, _)
HiddenGroupsOf(keys, colors, groupType, hiddenIds) ==
  IF Len(keys) = 0 THEN <<>>
  ELSE
    LET groupColors == GroupColors(colors, groupType, keys[1])
        allHidden == /\ Len(groupColors) > 0
                     /\ \A k \in 1..Len(groupColors) : groupColors[k].id \in Range(hiddenIds)
        rest == HiddenGroupsOf(Tail(keys), colors, groupType, hiddenIds)
    IN IF allHidden THEN <<[name |-> keys[1], count |-> Len(groupColors)]>> \o rest
       ELSE rest

\* the groups all of whose active colors are in hiddenIds
getHiddenGroups(colorData, groupType, hiddenIds) ==
  LET colors == getActiveColors(colorData)
  IN HiddenGroupsOf(GroupKeys(colors, groupType, <<>>), colors, groupType, hiddenIds)

\* the callers pass a second argument (the exclusion ids) that the
\* one-parameter method does not receive
getHiddenFamilies(colorData, hiddenIds, ignored) ==
  getHiddenGroups(colorData, "family", hiddenIds)

getHiddenCategories(colorData, hiddenIds, ignored) ==
  getHiddenGroups(colorData, "category", hiddenIds)

\* the ids of the active colors whose primary family is familyName, without
\* the excluded ones
getColorIdsForFamily(colorData, familyName, exclusionIds) ==
  ColorIds(SelectSeq(GroupColors(getActiveColors(colorData), "family", familyName),
                        LAMBDA c : c.id \notin Range(exclusionIds)))

\* the ids of the active colors that list categoryName, without the excluded ones
getColorIdsForCategory(colorData, categoryName, exclusionIds) ==
  ColorIds(SelectSeq(GroupColors(getActiveColors(colorData), "category", categoryName),
                        LAMBDA c : c.id \notin Range(exclusionIds)))

(***************************************************************************)
(* URLParameterManager: the query string                                   *)
(***************************************************************************)
\* a parameter that the query string does not have (params.get gives null)
Absent == <<"absent">>

ParamNames == {"favorites", "hidden", "scroll"}

\* the application/x-www-form-urlencoded escapes of the punctuation that the
\* values of this program can hold; digits, letters and * - . _ are written
\* as they are
PercentCode ==
  ("," :> <<"2", "C">>) @@ (":" :> <<"3", "A">>) @@ ("+" :> <<"2", "B">>) @@
  ("%" :> <<"2", "5">>) @@ ("!" :> <<"2", "1">>) @@ ("#" :> <<"2", "3">>) @@
  ("$" :> <<"2", "4">>) @@ ("&" :> <<"2", "6">>) @@ ("(" :> <<"2", "8">>) @@
  (")" :> <<"2", "9">>) @@ (";" :> <<"3", "B">>) @@ ("<" :> <<"3", "C">>) @@
  ("=" :> <<"3", "D">>) @@ (">" :> <<"3", "E">>) @@ ("?" :> <<"3", "F">>) @@
  ("@" :> <<"4", "0">>) @@ ("^" :> <<"5", "E">>) @@ (Grave :> <<"6", "0">>) @@
  ("{" :> <<"7", "B">>) @@ ("|" :> <<"7", "C">>) @@ ("}" :> <<"7", "D">>) @@
  ("~" :> <<"7", "E">>)

HexDigits == {"0", "1", "2", "3", "4", "5", "6", "7", "8", "9",
              "A", "B", "C", "D", "E", "F", "a", "b", "c", "d", "e", "f"}

\* URLSearchParams.toString(): the serializer escapes what PercentCode lists
RECURSIVE FormEncode(_)
FormEncode(s) ==
  IF Len(s) = 0 THEN <<>>
  ELSE (IF s[1] = " " THEN <<"+">>
        ELSE IF s[1] \in DOMAIN PercentCode THEN <<"%">> \o PercentCode[s[1]]
        ELSE <<s[1]>>) \o FormEncode(Tail(s))

\* the character that the escape %xy stands for ("?" for one outside the
\* alphabet of the model)
Unescaped(x, y) ==
  IF \E c \in DOMAIN PercentCode : PercentCode[c] = <<x, y>>
  THEN CHOOSE c \in DOMAIN PercentCode : PercentCode[c] = <<x, y>>
  ELSE "?"

\* new URLSearchParams(location.search): the inverse parsing of one value;
\* a % that two hexadecimal digits do not follow stays a %
RECURSIVE FormDecode(_)
FormDecode(s) ==
  IF Len(s) = 0 THEN <<>>
  ELSE IF s[1] = "+" THEN <<" ">> \o FormDecode(Tail(s))
  ELSE IF s[1] = "%" /\ Len(s) >= 3 /\ s[2] \in HexDigits /\ s[3] \in HexDigits THEN
    <<Unescaped(s[2], s[3])>> \o FormDecode(SubSeq(s, 4, Len(s)))
  ELSE <<s[1]>> \o FormDecode(Tail(s))

\* params.get(paramName): Absent, or the decoded value
ParamGet(query, paramName) ==
  IF query[paramName] = Absent THEN Absent ELSE FormDecode(query[paramName])

\* params.set(key, value) followed by params.toString()
ParamSet(query, key, value) == [query EXCEPT ![key] = FormEncode(value)]

\* params.delete(key)
ParamDelete(query, key) == [query EXCEPT ![key] = Absent]

\* a read that hands the whole value over as one item
getArrayParameterUnsplit(query, paramName) ==
  LET value == ParamGet(query, paramName)
  IN IF value = Absent \/ Len(value) = 0 THEN <<>> ELSE <<value>>

getArrayParameter(query, paramName) ==
  LET value == ParamGet(query, paramName)
  IN IF value = Absent \/ Len(value) = 0 THEN <<>>
     ELSE FilterNonBlank(Split(value, ","))

\* the page is served from the root
RootPath == "/"

\* a history that gains an entry at every write
HistoryAfterPush(len, replaceState) == len + 1

\* history.replaceState / history.pushState: the number of entries afterwards
HistoryAfter(len, replaceState) == IF replaceState THEN len ELSE len + 1

_processArrayParameter(query, key, value) ==
  IF Len(value) = 0 THEN ParamDelete(query, key)
  ELSE LET filteredValues == FilterNonBlank(value)
       IN IF Len(filteredValues) > 0
          THEN ParamSet(query, key, Join(filteredValues, ","))
          ELSE ParamDelete(query, key)

\* s.trim() for the blank of the model's alphabet
RECURSIVE TrimStart(_)
TrimStart(s) == IF Len(s) > 0 /\ s[1] = " " THEN TrimStart(Tail(s)) ELSE s
RECURSIVE TrimEnd(_)
TrimEnd(s) ==
  IF Len(s) > 0 /\ s[Len(s)] = " " THEN TrimEnd(SubSeq(s, 1, Len(s) - 1)) ELSE s
Trim(s) == TrimEnd(TrimStart(s))

_processScalarParameter(query, key, value) ==
  LET stringValue == Trim(value)
  IN IF stringValue = <<>> THEN ParamDelete(query, key)
     ELSE ParamSet(query, key, stringValue)

\* the values of an updates object: null, an array of strings, a string
Null == [type |-> "null", val |-> <<>>]
ArrayOf(v) == [type |-> "array", val |-> v]
ScalarOf(s) == [type |-> "scalar", val |-> s]
Entry(key, value) == [key |-> key, value |-> value]

\* params.toString(): every parameter is written again from its decoded value
Serialize(query) ==
  [p \in DOMAIN query |-> IF query[p] = Absent THEN Absent
                           ELSE FormEncode(FormDecode(query[p]))]

\* an update loop that deletes every parameter it is not told to set
RECURSIVE ProcessEntriesDroppingOthers(_, _)
ProcessEntriesDroppingOthers(query, entries) ==
  IF Len(entries) = 0 THEN query
  ELSE
    LET key == entries[1].key
        value == entries[1].value
        blank == [p \in DOMAIN query |-> Absent]
        q2 == IF value.type = "null" THEN blank
              ELSE IF value.type = "array" THEN _processArrayParameter(blank, key, value.val)
              ELSE _processScalarParameter(blank, key, value.val)
    IN ProcessEntriesDroppingOthers(q2, Tail(entries))

\* for (const [key, value] of Object.entries(updates))
RECURSIVE ProcessEntries(_, _)
ProcessEntries(query, entries) ==
  IF Len(entries) = 0 THEN query
  ELSE
    LET key == entries[1].key
        value == entries[1].value
        q2 == IF value.type = "null" THEN ParamDelete(query, key)
              ELSE IF value.type = "array" THEN _processArrayParameter(query, key, value.val)
              ELSE _processScalarParameter(query, key, value.val)
    IN ProcessEntries(q2, Tail(entries))

\* batchUpdate(updates): the new query string
batchUpdateEntries(query, entries) == Serialize(ProcessEntries(query, entries))

\* batchUpdate({favorites: favoriteTokens, hidden: hiddenTokens}): the new
\* query string
batchUpdate(query, favoriteTokens, hiddenTokens) ==
  batchUpdateEntries(query, <<Entry("favorites", ArrayOf(favoriteTokens)),
                              Entry("hidden", ArrayOf(hiddenTokens))>>)

(***************************************************************************)
(* AppState                                                                *)
(***************************************************************************)
FamilyPrefix == <<"f", "a", "m", "i", "l", "y", ":">>
CategoryPrefix == <<"c", "a", "t", "e", "g", "o", "r", "y", ":">>

\* an expansion that resolves family tokens only and lets category tokens through
RECURSIVE ExpandLoopFamiliesOnly(_, _, _, _)
ExpandLoopFamiliesOnly(ids, model, favoriteIds, expandedIds) ==
  IF Len(ids) = 0 THEN expandedIds
  ELSE
    LET id == ids[1]
        added ==
          IF StartsWith(id, FamilyPrefix)
          THEN getColorIdsForFamily(model, Substring(id, Len(FamilyPrefix)), favoriteIds)
          ELSE <<id>>
    IN ExpandLoopFamiliesOnly(Tail(ids), model, favoriteIds, AddAll(expandedIds, added))

RECURSIVE ExpandLoop(_, _, _, _)
ExpandLoop(ids, model, favoriteIds, expandedIds) ==
  IF Len(ids) = 0 THEN expandedIds
  ELSE
    LET id == ids[1]
        added ==
          IF StartsWith(id, FamilyPrefix)
          THEN getColorIdsForFamily(model, Substring(id, Len(FamilyPrefix)), favoriteIds)
          ELSE IF StartsWith(id, CategoryPrefix)
          THEN getColorIdsForCategory(model, Substring(id, Len(CategoryPrefix)), favoriteIds)
          ELSE <<id>>
    IN ExpandLoop(Tail(ids), model, favoriteIds, AddAll(expandedIds, added))

\* an expansion without the test for a missing catalog
_expandGroupIdsAlways(ids, model, favoriteIds) == ExpandLoop(ids, model, favoriteIds, <<>>)

\* favoriteIds is this.getFavorites() at the time of the call
_expandGroupIds(ids, model, favoriteIds) ==
  IF model = NoModel THEN ids ELSE ExpandLoop(ids, model, favoriteIds, <<>>)

\* a delete that takes nothing out
WithoutNothing(list, ids) == list

\* consolidated.delete(colorId) for every colorId of ids
Without(list, ids) == SelectSeq(list, LAMBDA x : x \notin Range(ids))

\* a consolidation that adds the group tokens and leaves the member ids in
RECURSIVE ConsolidateGroupsKeepMembers(_, _, _, _, _)
ConsolidateGroupsKeepMembers(groups, groupType, model, exclusionIds, consolidated) ==
  IF Len(groups) = 0 THEN consolidated
  ELSE
    LET token == (IF groupType = "family" THEN FamilyPrefix ELSE CategoryPrefix)
                 \o groups[1].name
    IN ConsolidateGroupsKeepMembers(Tail(groups), groupType, model, exclusionIds,
                                    AddAll(consolidated, <<token>>))

\* one of the two loops over the fully selected groups
RECURSIVE ConsolidateGroups(_, _, _, _, _)
ConsolidateGroups(groups, groupType, model, exclusionIds, consolidated) ==
  IF Len(groups) = 0 THEN consolidated
  ELSE
    LET name == groups[1].name
        memberIds == IF groupType = "family"
                     THEN getColorIdsForFamily(model, name, exclusionIds)
                     ELSE getColorIdsForCategory(model, name, exclusionIds)
        token == (IF groupType = "family" THEN FamilyPrefix ELSE CategoryPrefix) \o name
    IN ConsolidateGroups(Tail(groups), groupType, model, exclusionIds,
                         AddAll(Without(consolidated, memberIds), <<token>>))

\* a consolidation that removes the members of the fully selected families and
\* loses their tokens
_consolidateColorIdsLosingFamilies(colorIds, exclusionIds, model) ==
  IF model = NoModel \/ Len(colorIds) = 0 THEN colorIds
  ELSE
    LET selectedFamilies == getHiddenFamilies(model, colorIds, exclusionIds)
        afterFamilies == ConsolidateGroups(selectedFamilies, "family", model, exclusionIds,
                                           AddAll(<<>>, colorIds))
        selectedCategories == getHiddenCategories(model, colorIds, exclusionIds)
    IN SelectSeq(ConsolidateGroups(selectedCategories, "category", model, exclusionIds,
                                   afterFamilies),
                 LAMBDA t : ~StartsWith(t, FamilyPrefix))

_consolidateColorIds(colorIds, exclusionIds, model) ==
  IF model = NoModel \/ Len(colorIds) = 0 THEN colorIds
  ELSE
    LET selectedFamilies == getHiddenFamilies(model, colorIds, exclusionIds)
        afterFamilies == ConsolidateGroups(selectedFamilies, "family", model, exclusionIds,
                                           AddAll(<<>>, colorIds))
        selectedCategories == getHiddenCategories(model, colorIds, exclusionIds)
    IN ConsolidateGroups(selectedCategories, "category", model, exclusionIds, afterFamilies)

_consolidateHiddenIds(hiddenIds, favoriteIds, model) ==
  _consolidateColorIds(hiddenIds, favoriteIds, model)

_consolidateFavoriteIds(favoriteIds, hiddenIds, model) ==
  _consolidateColorIds(favoriteIds, hiddenIds, model)

\* loadFromURL(): the new <<favorites, hidden>>; both expansions read
\* this.favorites as it was before the call
loadFromURL(query, model, oldFavorites) ==
  LET favoriteIds == getArrayParameter(query, "favorites")
      hiddenIds == getArrayParameter(query, "hidden")
  IN <<AddAll(<<>>, _expandGroupIds(favoriteIds, model, oldFavorites)),
       AddAll(<<>>, _expandGroupIds(hiddenIds, model, oldFavorites))>>

\* a sync that writes the sets as they are, without consolidation
syncToURLUnconsolidated(query, favs, hid, model) == batchUpdate(query, favs, hid)

\* syncToURL(): the new query string
syncToURL(query, favs, hid, model) ==
  batchUpdate(query, _consolidateFavoriteIds(favs, hid, model),
                     _consolidateHiddenIds(hid, favs, model))

\* set.add(id) / set.delete(id)
SetAdd(set, id) == IF id \in Range(set) THEN set ELSE Append(set, id)
SetDelete(set, id) == SelectSeq(set, LAMBDA x : x # id)

ToggledAddOnly(set, colorId) == SetAdd(set, colorId)

\* the toggle of one set
Toggled(set, colorId) ==
  IF colorId \in Range(set) THEN SetDelete(set, colorId) ELSE SetAdd(set, colorId)

\* _bulkOperation on one set
BulkApplied(set, colorIds, operation) ==
  IF operation = "add" THEN AddAll(set, colorIds) ELSE Without(set, colorIds)

(***************************************************************************)
(* The state store as a state machine                                      *)
(***************************************************************************)
Id10 == <<"1", "0">>
Id20 == <<"2", "0">>
Id30 == <<"3", "0">>
Id99 == <<"9", "9">>

Red == <<"R", "e", "d">>
Blue == <<"B", "l", "u", "e">>
Top == <<"T", "o", "p">>
Low == <<"L", "o", "w">>

\* family Red = {10, 20} (30 lists Red second), family Blue = {30},
\* category Top = {10}
CatalogA ==
  <<Color(Id10, <<Red>>, <<Top>>, FALSE),
    Color(Id20, <<Red>>, <<>>, FALSE),
    Color(Id30, <<Blue, Red>>, <<>>, FALSE)>>

\* family Red = {10} (30 is archived), family Blue = {20},
\* category Top = {10}, category Low = {10, 20}
CatalogB ==
  <<Color(Id10, <<Red>>, <<Top, Low>>, FALSE),
    Color(Id20, <<Blue>>, <<Low>>, FALSE),
    Color(Id30, <<Red>>, <<Top>>, TRUE)>>

Catalogs == {CatalogA, CatalogB}

\* the ids a user action can name
ArgIds == {Id10, Id20, Id30}

\* the id lists of the bulk operations
BulkArgs == {<<Id10, Id20>>, <<Id10, Id20, Id30>>, <<Id20, Id30>>}

\* the token lists of the query string the page is opened with
InitTokens == {<<>>, <<Id10>>, <<FamilyPrefix \o Red>>, <<Id99, CategoryPrefix \o Top>>}

InitParam(tokens) == IF Len(tokens) = 0 THEN Absent ELSE FormEncode(Join(tokens, ","))

CodecIdle ==
  /\ input = [kind |-> "none", arg |-> <<>>]
  /\ middle = NoValue
  /\ output = NoValue
  /\ pc = "idle"

\* new AppState(colorModel) on a page opened with some query string; the
\* catalog is fixed at construction (setColorModel has no caller)
Init ==
  /\ CodecIdle
  /\ colorModel \in Catalogs \cup {NoModel}
  /\ \E f \in InitTokens, h \in InitTokens :
       search = [p \in ParamNames |->
                   IF p = "favorites" THEN InitParam(f)
                   ELSE IF p = "hidden" THEN InitParam(h) ELSE Absent]
  /\ favorites = loadFromURL(search, colorModel, <<>>)[1]
  /\ hidden = loadFromURL(search, colorModel, <<>>)[2]
  /\ pathname = RootPath
  /\ historyLen = 1
  /\ lastOp = "none"

\* the tail of every mutating method: this.syncToURL(), a replaceState
Sync(op) ==
  /\ search' = syncToURL(search, favorites', hidden', colorModel)
  /\ pathname' = pathname
  /\ historyLen' = HistoryAfter(historyLen, TRUE)
  /\ lastOp' = op
  /\ UNCHANGED colorModel
  /\ UNCHANGED codecVars

toggleFavorite(colorId) ==
  /\ favorites' = Toggled(favorites, colorId)
  /\ hidden' = hidden
  /\ Sync("toggleFavorite")

toggleHidden(colorId) ==
  /\ hidden' = Toggled(hidden, colorId)
  /\ favorites' = favorites
  /\ Sync("toggleHidden")

addMultipleFavorites(colorIds) ==
  /\ favorites' = BulkApplied(favorites, colorIds, "add")
  /\ hidden' = hidden
  /\ Sync("addMultipleFavorites")

removeMultipleFavorites(colorIds) ==
  /\ favorites' = BulkApplied(favorites, colorIds, "remove")
  /\ hidden' = hidden
  /\ Sync("removeMultipleFavorites")

addMultipleHidden(colorIds) ==
  /\ hidden' = BulkApplied(hidden, colorIds, "add")
  /\ favorites' = favorites
  /\ Sync("addMultipleHidden")

removeMultipleHidden(colorIds) ==
  /\ hidden' = BulkApplied(hidden, colorIds, "remove")
  /\ favorites' = favorites
  /\ Sync("removeMultipleHidden")

\* a clear that empties both sets
clearFavoritesAndHidden ==
  /\ favorites' = <<>>
  /\ hidden' = <<>>
  /\ Sync("clearFavorites")

clearFavorites ==
  /\ favorites' = <<>>
  /\ hidden' = hidden
  /\ Sync("clearFavorites")

clearHidden ==
  /\ hidden' = <<>>
  /\ favorites' = favorites
  /\ Sync("clearHidden")

Next ==
  \/ \E colorId \in ArgIds : toggleFavorite(colorId)
  \/ \E colorId \in ArgIds : toggleHidden(colorId)
  \/ \E colorIds \in BulkArgs : addMultipleFavorites(colorIds)
  \/ \E colorIds \in BulkArgs : removeMultipleFavorites(colorIds)
  \/ \E colorIds \in BulkArgs : addMultipleHidden(colorIds)
  \/ \E colorIds \in BulkArgs : removeMultipleHidden(colorIds)
  \/ clearFavorites
  \/ clearHidden

Spec == Init /\ [][Next]_vars

(***************************************************************************)
(* Codec development: the pure functions applied to bounded inputs         *)
(***************************************************************************)
MaxIds == 2
MaxBytes == 5
MaxTokens == 3

\* sequences over S of length 0..n
SeqUpTo(S, n) == UNION {[1..k -> S] : k \in 0..n}

\* numeric values at the borders of the 1-, 2-, 3- and 4-byte encodings, and
\* the values whose first encoded byte is 0xFE
IdValues == {0, 127, 128, 16128, 16255, 16383, 16384, 2064384, 2097151,
             2097152, 264241152, 268435455}

ValidIds == {String(n) : n \in IdValues} \cup {BrightPrefix \o String(n) : n \in IdValues}

ByteValues == {0, 1, 85, 128, 254, 255}

\* numeric values at and above the 4-byte limit (at most nine digits)
LargeIdValues == {268435456, 268435457, 536870912, 999999999}

\* ids handed to the encoder unvalidated
RawIds == {String(n) : n \in LargeIdValues \cup {127, 268435455}}
            \cup {BrightPrefix \o String(268435456)}

MaxText == 6

\* characters of the alphabet and characters outside it
TextChars == {"0", "~", ",", "."}

FamilyRed == <<"f", "a", "m", "i", "l", "y", ":", "R", "e", "d">>
CategoryTop == <<"c", "a", "t", "e", "g", "o", "r", "y", ":", "T", "o", "p">>
CategoryDotted == <<"c", "a", "t", "e", "g", "o", "r", "y", ":", "A", ".", "B">>

MixedTokens == {String(0), String(1747), String(16128), BrightPrefix \o String(42),
                FamilyRed, CategoryTop, CategoryDotted}

\* the state store is idle while the codec is studied
AppIdle ==
  /\ favorites = <<>>
  /\ hidden = <<>>
  /\ colorModel = NoModel
  /\ search = [p \in ParamNames |-> Absent]
  /\ pathname = RootPath
  /\ historyLen = 1
  /\ lastOp = "none"

CodecInit ==
  /\ AppIdle
  /\ pc = "start"
  /\ middle = NoValue
  /\ output = NoValue
  /\ \/ input \in [kind : {"ids"}, arg : SeqUpTo(ValidIds, MaxIds)]
     \/ input \in [kind : {"rawids"}, arg : SeqUpTo(RawIds, MaxIds)]
     \/ input \in [kind : {"text"}, arg : SeqUpTo(TextChars, MaxText)]
     \/ input \in [kind : {"bytes"}, arg : SeqUpTo(ByteValues, MaxBytes)]
     \/ input \in [kind : {"tokens"}, arg : SeqUpTo(MixedTokens, MaxTokens)]

\* encodeNumericIds(ids)
EncodeIds ==
  /\ pc = "start" /\ input.kind \in {"ids", "rawids"}
  /\ middle' = encodeNumericIds(input.arg)
  /\ pc' = "encoded"
  /\ UNCHANGED <<input, output>>
  /\ UNCHANGED appVars

\* decodeNumericIds(encodeNumericIds(ids))
DecodeIds ==
  /\ pc = "encoded" /\ input.kind \in {"ids", "rawids"}
  /\ output' = IF middle.err THEN Throw ELSE decodeNumericIds(middle.val)
  /\ pc' = "done"
  /\ UNCHANGED <<input, middle>>
  /\ UNCHANGED appVars

\* toBase85(buffer)
EncodeBase85 ==
  /\ pc = "start" /\ input.kind = "bytes"
  /\ middle' = Return(toBase85(input.arg))
  /\ pc' = "encoded"
  /\ UNCHANGED <<input, output>>
  /\ UNCHANGED appVars

\* fromBase85(toBase85(buffer))
DecodeBase85 ==
  /\ pc = "encoded" /\ input.kind = "bytes"
  /\ output' = fromBase85(middle.val)
  /\ pc' = "done"
  /\ UNCHANGED <<input, middle>>
  /\ UNCHANGED appVars

\* compressIds(tokens)
Compress ==
  /\ pc = "start" /\ input.kind = "tokens"
  /\ middle' = compressIds(input.arg)
  /\ pc' = "encoded"
  /\ UNCHANGED <<input, output>>
  /\ UNCHANGED appVars

\* decompressIds(compressIds(tokens))
Decompress ==
  /\ pc = "encoded" /\ input.kind = "tokens"
  /\ output' = IF middle.err THEN Throw ELSE decompressIds(middle.val)
  /\ pc' = "done"
  /\ UNCHANGED <<input, middle>>
  /\ UNCHANGED appVars

\* decodeNumericIds(buffer) on bytes as they arrive
DecodeBuffer ==
  /\ pc = "start" /\ input.kind = "bytes"
  /\ output' = decodeNumericIds(input.arg)
  /\ pc' = "decoded"
  /\ UNCHANGED <<input, middle>>
  /\ UNCHANGED appVars

\* fromBase85(str) on text as it arrives
DecodeText ==
  /\ pc = "start" /\ input.kind = "text"
  /\ output' = fromBase85(input.arg)
  /\ pc' = "decoded"
  /\ UNCHANGED <<input, middle>>
  /\ UNCHANGED appVars

CodecNext ==
  \/ EncodeIds
  \/ DecodeIds
  \/ EncodeBase85
  \/ DecodeBase85
  \/ Compress
  \/ Decompress
  \/ DecodeBuffer
  \/ DecodeText

SpecCodec == CodecInit /\ [][CodecNext]_vars

(***************************************************************************)
(* Properties of the codec                                                 *)
(***************************************************************************)
\* C1: for every list of valid ids, decodeNumericIds(encodeNumericIds(ids))
\* returns ids, element for element and in the same order.
VarIntRoundTrip ==
  (pc = "done" /\ input.kind = "ids") =>
    (~middle.err /\ ~output.err /\ output.val = input.arg)

\* C2: the bytes emitted for a plain (non-bright) id never begin with the
\* two-byte bright marker 0xFE 0x00.
PlainNeverStartsWithMarker ==
  (pc = "encoded" /\ input.kind = "ids" /\ Len(input.arg) >= 1
     /\ ~StartsWith(input.arg[1], BrightPrefix)) =>
    (~middle.err /\ ~StartsWith(middle.val, <<MarkerByte1, MarkerByte2>>))

\* C3: for every token list, decompressIds(compressIds(tokens)) returns
\* tokens exactly, including order.
CompressRoundTrip ==
  (pc = "done" /\ input.kind = "tokens") =>
    (~middle.err /\ ~output.err /\ output.val = input.arg)

\* C4: for every byte sequence b, fromBase85(toBase85(b)) returns b.
Base85RoundTrip ==
  (pc = "done" /\ input.kind = "bytes") =>
    (~output.err /\ output.val = input.arg)

\* a byte sequence made of a full 4-byte chunk of large value and a partial
\* chunk has been encoded to 5 + 2 characters and decoded
Base85RoundTripWitness ==
  /\ pc = "done" /\ input.kind = "bytes"
  /\ Len(input.arg) = 5
  /\ input.arg[1] = 255
  /\ input.arg[5] = 254
  /\ Len(middle.val) = 7
  /\ output = Return(input.arg)

(***************************************************************************)
(* Group development: consolidation and expansion applied to bounded       *)
(* inputs                                                                  *)
(***************************************************************************)
\* the duplicate-free id lists over the catalog ids and one foreign id
RECURSIVE SubLists(_)
SubLists(list) ==
  IF Len(list) = 0 THEN {<<>>}
  ELSE LET rest == SubLists(Tail(list))
       IN rest \cup {<<list[1]>> \o r : r \in rest}

GroupInputs == SubLists(<<Id10, Id20, Id30, Id99>>)

MaxExpand == 3

\* tokens handed to _expandGroupIds directly: bare ids, tokens of groups the
\* catalogs hold and tokens of groups they do not hold
TokenChoices == {Id10, Id20, Id99, FamilyPrefix \o Red, FamilyPrefix \o Low,
                 CategoryPrefix \o Top, CategoryPrefix \o Low}

ExpandInputs == SeqUpTo(TokenChoices, MaxExpand)

GroupsInit ==
  /\ colorModel \in Catalogs \cup {NoModel}
  /\ favorites \in {<<>>, <<Id10>>}
  /\ hidden = <<>>
  /\ search = [p \in ParamNames |-> Absent]
  /\ pathname = RootPath
  /\ historyLen = 1
  /\ lastOp = "none"
  /\ \/ input \in [kind : {"groups"}, arg : GroupInputs, excl : GroupInputs]
     \/ input \in [kind : {"expand"}, arg : ExpandInputs]
  /\ middle = NoValue
  /\ output = NoValue
  /\ pc = "start"

\* _consolidateColorIds(colorIds, exclusionIds)
Consolidate ==
  /\ pc = "start" /\ input.kind = "groups"
  /\ middle' = Return(_consolidateColorIds(input.arg, input.excl, colorModel))
  /\ pc' = "consolidated"
  /\ UNCHANGED <<input, output>>
  /\ UNCHANGED appVars

\* _expandGroupIds(_consolidateColorIds(colorIds, exclusionIds))
Expand ==
  /\ pc = "consolidated" /\ input.kind = "groups"
  /\ output' = Return(_expandGroupIds(middle.val, colorModel, favorites))
  /\ pc' = "expanded"
  /\ UNCHANGED <<input, middle>>
  /\ UNCHANGED appVars

\* _consolidateColorIds(_consolidateColorIds(colorIds, exclusionIds), exclusionIds)
Reconsolidate ==
  /\ pc = "consolidated" /\ input.kind = "groups"
  /\ output' = Return(_consolidateColorIds(middle.val, input.excl, colorModel))
  /\ pc' = "reconsolidated"
  /\ UNCHANGED <<input, middle>>
  /\ UNCHANGED appVars

\* _expandGroupIds(ids) on a token list as the URL supplies it
ExpandDirect ==
  /\ pc = "start" /\ input.kind = "expand"
  /\ output' = Return(_expandGroupIds(input.arg, colorModel, favorites))
  /\ pc' = "expanded"
  /\ UNCHANGED <<input, middle>>
  /\ UNCHANGED appVars

GroupsNext ==
  \/ Consolidate
  \/ Expand
  \/ Reconsolidate
  \/ ExpandDirect

SpecGroups == GroupsInit /\ [][GroupsNext]_vars

(***************************************************************************)
(* Properties of the state store                                           *)
(***************************************************************************)
IsGroupToken(t) == StartsWith(t, FamilyPrefix) \/ StartsWith(t, CategoryPrefix)

Mutated == lastOp # "none"

\* C5: after any sequence of mutating calls on an AppState with a catalog, a
\* fresh AppState constructed from the URL written by the last call has the
\* same favorites and hidden sets as the current ones.
ReloadReproducesSets ==
  (Mutated /\ colorModel # NoModel) =>
    LET loaded == loadFromURL(search, colorModel, <<>>)
    IN /\ Range(loaded[1]) = Range(favorites)
       /\ Range(loaded[2]) = Range(hidden)

\* a whole family is hidden, one of its colors is also a favorite, and the
\* written hidden parameter carries the family token
ReloadReproducesSetsWitness ==
  /\ Mutated /\ colorModel = CatalogA
  /\ Range(hidden) = {Id10, Id20}
  /\ Id10 \in Range(favorites)
  /\ (FamilyPrefix \o Red) \in Range(getArrayParameter(search, "hidden"))
  /\ Range(loadFromURL(search, colorModel, <<>>)[2]) = {Id10, Id20}

\* the value of a parameter as decompressIds receives it
Payload(paramName) ==
  IF ParamGet(search, paramName) = Absent THEN <<>> ELSE ParamGet(search, paramName)

JoinedTokens(paramName, tokens) ==
  IF Len(tokens) = 0 THEN ParamGet(search, paramName) = Absent
  ELSE ParamGet(search, paramName) = Join(tokens, ",")

NoGroupTokenInSets ==
  \A t \in Range(favorites) \cup Range(hidden) : ~IsGroupToken(t)

\* C7 as stated: in every reachable state, with or without a catalog, the
\* favorites and hidden sets hold no group token.
SetsHoldOnlyColorIds == NoGroupTokenInSets

\* C7 (amended): in every reachable state of an AppState constructed with a
\* catalog the favorites and hidden sets hold no group token.
SetsHoldOnlyColorIdsWithCatalog == (colorModel # NoModel) => NoGroupTokenInSets

\* construction with a catalog from a URL whose hidden parameter is a family
\* token: the set holds the members
SetsHoldOnlyColorIdsWitness ==
  /\ colorModel = CatalogA /\ lastOp = "none"
  /\ getArrayParameter(search, "hidden") = <<FamilyPrefix \o Red>>
  /\ hidden = <<Id10, Id20>>

\* the names of the families of the catalog, and their members
FamilyNames == IF colorModel = NoModel THEN {}
               ELSE Range(GroupKeys(getActiveColors(colorModel), "family", <<>>))
CategoryNames == IF colorModel = NoModel THEN {}
                 ELSE Range(GroupKeys(getActiveColors(colorModel), "category", <<>>))
FamilyMembers(F) == Range(getColorIdsForFamily(colorModel, F, <<>>))
CategoryMembers(C) == Range(getColorIdsForCategory(colorModel, C, <<>>))

\* hiding every color of F, starting from an empty hidden set
HidesWholeFamily(F) == hidden = <<>> /\ Range(hidden') = FamilyMembers(F)

\* unhiding the member m of the wholly hidden family F
UnhidesMember(F, m) ==
  /\ Range(hidden) = FamilyMembers(F)
  /\ m \in FamilyMembers(F)
  /\ Range(hidden') = FamilyMembers(F) \ {m}

HiddenTokensAfter == Range(getArrayParameter(search', "hidden"))

\* C8 as stated: hiding every color of a family F from an empty hidden set
\* writes family:F and no bare member of F; unhiding one member afterwards
\* writes exactly the remaining members as bare ids.
FamilyTokenScenario ==
  [][\A F \in FamilyNames :
       /\ HidesWholeFamily(F) =>
            /\ (FamilyPrefix \o F) \in HiddenTokensAfter
            /\ HiddenTokensAfter \cap FamilyMembers(F) = {}
       /\ \A m \in FamilyMembers(F) :
            UnhidesMember(F, m) => HiddenTokensAfter = FamilyMembers(F) \ {m}]_vars

\* C8 (amended): when no color of F is a favorite, hiding every color of F
\* from an empty hidden set writes family:F and no bare member of F; unhiding
\* one member afterwards writes no family:F token, and writes exactly the
\* remaining members as bare ids when no category has all of its colors among
\* them.
FamilyTokenScenarioAmended ==
  [][\A F \in FamilyNames :
       /\ (HidesWholeFamily(F) /\ FamilyMembers(F) \cap Range(favorites) = {}) =>
            /\ (FamilyPrefix \o F) \in HiddenTokensAfter
            /\ HiddenTokensAfter \cap FamilyMembers(F) = {}
       /\ \A m \in FamilyMembers(F) :
            UnhidesMember(F, m) =>
              /\ (FamilyPrefix \o F) \notin HiddenTokensAfter
              /\ (\A C \in CategoryNames : ~(CategoryMembers(C) \subseteq FamilyMembers(F) \ {m}))
                   => HiddenTokensAfter = FamilyMembers(F) \ {m}]_vars

\* the two colors of family Red were hidden in one bulk call and the hidden
\* parameter carries family:Red and neither of the two ids
FamilyTokenScenarioWitness ==
  /\ colorModel = CatalogA /\ lastOp = "addMultipleHidden"
  /\ favorites = <<>>
  /\ hidden = <<Id10, Id20>>
  /\ getArrayParameter(search, "hidden") = <<FamilyPrefix \o Red, CategoryPrefix \o Top>>

(***************************************************************************)
(* Properties of consolidation and expansion                               *)
(***************************************************************************)
\* the membership of a group computed without the excluded colors
FilteredFamily(F) == Range(getColorIdsForFamily(colorModel, F, input.excl))
FilteredCategory(C) == Range(getColorIdsForCategory(colorModel, C, input.excl))

\* the groups whose whole filtered membership is in colorIds
MatchedFamilies ==
  {F \in FamilyNames : FilteredFamily(F) # {} /\ FilteredFamily(F) \subseteq Range(input.arg)}
MatchedCategories ==
  {C \in CategoryNames : FilteredCategory(C) # {} /\ FilteredCategory(C) \subseteq Range(input.arg)}

Covered == UNION ({FilteredFamily(F) : F \in MatchedFamilies}
                  \cup {FilteredCategory(C) : C \in MatchedCategories})

\* C9: _consolidateColorIds returns a group token for exactly the families and
\* categories whose whole membership, computed without the colors of
\* exclusionIds, is in colorIds, and a bare id for exactly the ids of colorIds
\* that no such group covers.
ConsolidationMatchesFilteredGroups ==
  (pc = "consolidated" /\ input.kind = "groups" /\ colorModel # NoModel) =>
    /\ \A F \in FamilyNames : FilteredFamily(F) # {} =>
         ((FamilyPrefix \o F) \in Range(middle.val) <=> F \in MatchedFamilies)
    /\ \A C \in CategoryNames : FilteredCategory(C) # {} =>
         ((CategoryPrefix \o C) \in Range(middle.val) <=> C \in MatchedCategories)
    /\ \A id \in Range(input.arg) : (id \in Range(middle.val) <=> id \notin Covered)

\* C10: for every catalog and every set S of color ids, expanding the tokens
\* of the consolidation of S with an empty exclusion list and no favorites
\* gives exactly S.
ExpandInvertsConsolidate ==
  (pc = "expanded" /\ input.kind = "groups" /\ colorModel # NoModel
     /\ input.excl = <<>> /\ favorites = <<>>) =>
    Range(output.val) = Range(input.arg)

\* a set made of a whole family and a whole category was consolidated to two
\* tokens and one bare id and expanded back
ExpandInvertsConsolidateWitness ==
  /\ pc = "expanded" /\ input.kind = "groups" /\ colorModel = CatalogA
  /\ input.excl = <<>> /\ favorites = <<>>
  /\ input.arg = <<Id10, Id20, Id99>>
  /\ middle.val = <<Id99, FamilyPrefix \o Red, CategoryPrefix \o Top>>
  /\ Range(output.val) = {Id10, Id20, Id99}

\* C11: for every token list t returned by _consolidateColorIds(ids, ex),
\* consolidating t again with the same catalog and the same exclusion list
\* returns t, token for token and in the same order.
ConsolidationIdempotent ==
  (pc = "reconsolidated" /\ input.kind = "groups") => output.val = middle.val

\* a family and a category whose members are all excluded keep their members
\* beside their tokens, are matched again by the second pass, and the second
\* pass changes nothing
ConsolidationIdempotentWitness ==
  /\ pc = "reconsolidated" /\ input.kind = "groups" /\ colorModel = CatalogA
  /\ input.arg = <<Id10, Id20>> /\ input.excl = <<Id10, Id20>>
  /\ middle.val = <<Id10, Id20, FamilyPrefix \o Red, CategoryPrefix \o Top>>
  /\ output.val = middle.val

FavoriteOps == {"toggleFavorite", "addMultipleFavorites", "removeMultipleFavorites",
                "clearFavorites"}
HiddenOps == {"toggleHidden", "addMultipleHidden", "removeMultipleHidden", "clearHidden"}

\* C12: toggleFavorite, addMultipleFavorites, removeMultipleFavorites and
\* clearFavorites leave the hidden set as it was, the four operations on the
\* hidden set leave the favorites as they were, and a color that is in both
\* sets is still hidden after clearFavorites.
SetsAreIndependent ==
  [][/\ lastOp' \in FavoriteOps => hidden' = hidden
     /\ lastOp' \in HiddenOps => favorites' = favorites
     /\ lastOp' = "clearFavorites" =>
          \A id \in Range(favorites) \cap Range(hidden) : id \in Range(hidden')]_vars

\* the favorites were cleared while colors were hidden
SetsAreIndependentWitness ==
  /\ lastOp = "clearFavorites" /\ favorites = <<>>
  /\ hidden = <<Id10, Id20>>

\* ---------------------------------------------------------------------------
\* Construction development: new AppState(colorModel) on a page whose query
\* string carries arbitrary text in 'favorites' and 'hidden'
\* ---------------------------------------------------------------------------

\* a payload whose only byte has the continuation bit set
TruncatedVarInt == toBase85(<<128>>)
\* a payload with a number of five continuation bytes
OverlongVarInt == toBase85(<<255, 255, 255, 255, 255, 1>>)
\* payloads with characters outside the Base85 alphabet
OutsideAlphabet == <<"0", "/", "R">>
OutsideAlphabetList == <<"0", "R", ",", "[">>
\* the payload of the single id 10
WellFormedPayload == toBase85(encodeNumericIds(<<Id10>>).val)

LoadValues == {Absent, TruncatedVarInt, OverlongVarInt, OutsideAlphabet,
               OutsideAlphabetList, WellFormedPayload}

LoadParam(value) == IF value = Absent THEN Absent ELSE FormEncode(value)

\* the fields as the constructor sets them before it calls loadFromURL()
LoadInit ==
  /\ CodecIdle
  /\ colorModel \in Catalogs \cup {NoModel}
  /\ \E f \in LoadValues, h \in LoadValues :
       search = [p \in ParamNames |->
                   IF p = "favorites" THEN LoadParam(f)
                   ELSE IF p = "hidden" THEN LoadParam(h) ELSE Absent]
  /\ favorites = <<>>
  /\ hidden = <<>>
  /\ pathname = RootPath
  /\ historyLen = 1
  /\ lastOp = "none"

\* this.loadFromURL() at the end of the constructor; no statement on its path
\* throws, so the constructor returns with the two sets
Construct ==
  /\ lastOp = "none"
  /\ LET loaded == loadFromURL(search, colorModel, favorites)
     IN /\ favorites' = loaded[1]
        /\ hidden' = loaded[2]
        /\ output' = Return(loaded)
  /\ lastOp' = "loadFromURL"
  /\ UNCHANGED <<colorModel, search, pathname, historyLen>>
  /\ UNCHANGED <<input, middle, pc>>

LoadNext == Construct

SpecLoad == LoadInit /\ [][LoadNext]_vars

\* the text of a parameter is not a payload decompressIds accepts
Malformed(paramName) ==
  /\ ParamGet(search, paramName) # Absent
  /\ decompressIds(ParamGet(search, paramName)).err

Pieces(paramName) == Range(FilterNonBlank(Split(ParamGet(search, paramName), ",")))

IdValue(id) ==
  IF StartsWith(id, BrightPrefix) THEN ParseInt(Substring(id, 7)).val ELSE ParseInt(id).val

\* C14: encodeNumericIds raises an error and returns no bytes whenever one of
\* the ids has a numeric value of 268435456 or more; no such value is cut down
\* to a 4-byte encoding.
EncodeRejectsLargeIds ==
  (pc = "encoded" /\ input.kind = "rawids"
     /\ \E k \in 1..Len(input.arg) : IdValue(input.arg[k]) >= 268435456) =>
    (middle.err /\ middle.val = <<>>)

\* the smallest value over the limit, after an id that encodes, was refused
EncodeRejectsLargeIdsWitness ==
  /\ pc = "encoded" /\ input.kind = "rawids"
  /\ input.arg = <<String(268435455), String(268435456)>>
  /\ middle = Throw

\* the buffer is a run of whole numbers followed by the bright marker
EndsAfterMarker(buffer) ==
  /\ Len(buffer) >= 2
  /\ SubSeq(buffer, Len(buffer) - 1, Len(buffer)) = <<MarkerByte1, MarkerByte2>>
  /\ ~decodeNumericIds(SubSeq(buffer, 1, Len(buffer) - 2)).err

\* C15: decodeNumericIds raises an error, and returns no value, for every
\* buffer that ends in the middle of a number: a buffer whose last byte has
\* the continuation bit set, and a buffer of whole numbers that ends right
\* after the bright marker 0xFE 0x00.
DecodeRejectsTruncatedBuffers ==
  (pc = "decoded" /\ input.kind = "bytes" /\ Len(input.arg) > 0
     /\ (input.arg[Len(input.arg)] >= 128 \/ EndsAfterMarker(input.arg))) =>
    output = Throw

\* a whole number followed by a lone marker, and a number cut after its
\* second continuation byte, were both refused
DecodeRejectsTruncatedBuffersWitness ==
  /\ pc = "decoded" /\ input.kind = "bytes" /\ output = Throw
  /\ \/ input.arg = <<85, 254, 0>>
     \/ input.arg = <<1, 128, 255>>

\* the first four bytes of the buffer carry the continuation bit
FourContinuationBytes(buffer) ==
  Len(buffer) >= 4 /\ \A k \in 1..4 : buffer[k] >= 128

\* C16: decodeNumericIds accepts no number spread over more than four bytes:
\* every buffer in which a number has four consecutive bytes with the
\* continuation bit set fails with an error whatever the fifth byte is, and
\* every id returned has a value from 0 to 268435455.
DecodeRejectsLongNumbers ==
  (pc = "decoded" /\ input.kind = "bytes") =>
    /\ FourContinuationBytes(input.arg) => output.err
    /\ ~output.err =>
         \A k \in 1..Len(output.val) :
           IdValue(output.val[k]) >= 0 /\ IdValue(output.val[k]) <= 268435455

\* C17: fromBase85 raises a decode error, and returns no bytes, for every
\* string that holds at least one character outside the 85-character
\* alphabet, wherever that character stands.
FromBase85RejectsForeignCharacters ==
  (pc = "decoded" /\ input.kind = "text"
     /\ \E k \in 1..Len(input.arg) : input.arg[k] \notin Range(BASE85_CHARS)) =>
    output = Throw

\* a comma as the lone character of the second chunk was refused
FromBase85RejectsForeignCharactersWitness ==
  /\ pc = "decoded" /\ input.kind = "text"
  /\ input.arg = <<"0", "~", "0", "~", "0", ",">>
  /\ output = Throw

NumericTokens(ids) == SelectSeq(ids, LAMBDA t : ":" \notin Range(t))
GroupTokens(ids) == SelectSeq(ids, LAMBDA t : ":" \in Range(t))

CountOf(mask, c) == Cardinality({k \in 1..Len(mask) : mask[k] = c})

\* the payload has the shape the claim gives for the token list ids
PayloadShape(ids, payload) ==
  LET numeric == NumericTokens(ids)
      groups == GroupTokens(ids)
      regions == Split(payload, ".")
  IN /\ Len(ids) = 0 => payload = <<>>
     /\ (Len(numeric) > 0 /\ Len(groups) = 0) =>
          (payload = toBase85(encodeNumericIds(numeric).val) /\ "." \notin Range(payload))
     /\ (Len(numeric) = 0 /\ Len(groups) > 0) =>
          payload = <<".">> \o Join(groups, ",")
     /\ (Len(numeric) > 0 /\ Len(groups) > 0) =>
          /\ Len(regions) = 3
          /\ Range(regions[3]) \subseteq {"n", "g"}
          /\ Len(regions[3]) = Len(ids)
          /\ CountOf(regions[3], "n") = Len(numeric)
          /\ CountOf(regions[3], "g") = Len(groups)

NoDotInTokens(ids) == \A k \in 1..Len(ids) : "." \notin Range(ids[k])

ActiveEntries == {k \in 1..Len(colorModel) : ~colorModel[k].archived}

\* the colors whose first family is F, and the colors that list category C
PrimaryFamilyIds(F) ==
  {colorModel[k].id : k \in {j \in ActiveEntries :
      /\ Len(colorModel[j].colorFamilyNames) > 0
      /\ colorModel[j].colorFamilyNames[1] = F}}
ListedCategoryIds(C) ==
  {colorModel[k].id : k \in {j \in ActiveEntries :
      C \in Range(colorModel[j].brandedCollectionNames)}}

\* what one token stands for: itself, or the members of its group
TokenIds(token) ==
  IF StartsWith(token, FamilyPrefix)
  THEN PrimaryFamilyIds(SubSeq(token, Len(FamilyPrefix) + 1, Len(token)))
  ELSE IF StartsWith(token, CategoryPrefix)
  THEN ListedCategoryIds(SubSeq(token, Len(CategoryPrefix) + 1, Len(token)))
  ELSE {token}

NoCatalogPassesThrough ==
  colorModel = NoModel =>
    /\ (pc = "expanded" /\ input.kind = "expand") => output = Return(input.arg)
    /\ (pc = "consolidated" /\ input.kind = "groups") => middle = Return(input.arg)

\* a group token and a repeated id came back as they were
NoCatalogPassesThroughWitness ==
  /\ colorModel = NoModel /\ pc = "expanded" /\ input.kind = "expand"
  /\ input.arg = <<FamilyPrefix \o Red, Id10, Id10>>
  /\ output = Return(input.arg)

\* ---------------------------------------------------------------------------
\* URL development: URLParameterManager.batchUpdate on arbitrary updates
\* ---------------------------------------------------------------------------
MaxHistory == 2

Paths == {RootPath, "/colors/"}

\* raw parameter texts of the opening URL; the comma of the last one is not
\* escaped, as in a URL typed by hand
RawValues == {Absent, <<"1">>, <<"1", ",", "2">>}

UpdateValues == {Null, ArrayOf(<<>>), ArrayOf(<<<<"a">>>>),
                 ArrayOf(<<<<" ">>, <<"a">>, <<>>, <<"b">>>>), ScalarOf(<<" ", "7">>)}

\* the entries of an updates object of one or two keys
UpdateEntries ==
  {<<Entry(k, v)>> : k \in ParamNames, v \in UpdateValues}
    \cup {<<Entry(k1, v1), Entry(k2, v2)>> :
             k1 \in ParamNames, k2 \in ParamNames \ {"scroll"},
             v1 \in UpdateValues, v2 \in UpdateValues}

UrlInit ==
  /\ CodecIdle
  /\ favorites = <<>>
  /\ hidden = <<>>
  /\ colorModel = NoModel
  /\ search \in [ParamNames -> RawValues]
  /\ pathname \in Paths
  /\ historyLen = 1
  /\ lastOp = "none"

\* URLParameterManager.batchUpdate(updates, replaceState)
BatchUpdate(entries, replaceState) ==
  /\ \A i, j \in 1..Len(entries) : entries[i].key = entries[j].key => i = j
  /\ ~replaceState => historyLen < MaxHistory
  /\ search' = batchUpdateEntries(search, entries)
  /\ pathname' = pathname
  /\ historyLen' = HistoryAfter(historyLen, replaceState)
  /\ lastOp' = "batchUpdate"
  /\ input' = [kind |-> "updates", arg |-> entries, replaceState |-> replaceState]
  /\ UNCHANGED <<favorites, hidden, colorModel, middle, output, pc>>

UrlNext == \E entries \in UpdateEntries, replaceState \in BOOLEAN :
             BatchUpdate(entries, replaceState)

SpecUrl == UrlInit /\ [][UrlNext]_vars

EntryKeys(entries) == {entries[k].key : k \in 1..Len(entries)}

NonEmptyItems(list) == SelectSeq(list, LAMBDA item : item # <<>>)

\* C21 as stated: batchUpdate changes only the query parameters named in its
\* argument: the path and every other parameter keep their values, a null
\* value removes the named parameter, and an array value sets it to the
\* comma-joined non-empty entries.
BatchUpdateTouchesNamedOnly ==
  [][(lastOp' = "batchUpdate") =>
       LET entries == input'.arg
       IN /\ pathname' = pathname
          /\ \A p \in ParamNames \ EntryKeys(entries) :
               ParamGet(search', p) = ParamGet(search, p)
          /\ \A k \in 1..Len(entries) :
               /\ entries[k].value.type = "null" =>
                    ParamGet(search', entries[k].key) = Absent
               /\ entries[k].value.type = "array" =>
                    ParamGet(search', entries[k].key)
                      = Join(NonEmptyItems(entries[k].value.val), ",")]_vars

\* C21 (amended): batchUpdate changes only the query parameters named in its
\* argument: the path and every other parameter keep their values, a null
\* value removes the named parameter, and an array value sets it to the
\* comma-joined entries that are not blank, or removes it when the array has
\* no such entry.
BatchUpdateTouchesNamedOnlyNonBlank ==
  [][(lastOp' = "batchUpdate") =>
       LET entries == input'.arg
       IN /\ pathname' = pathname
          /\ \A p \in ParamNames \ EntryKeys(entries) :
               ParamGet(search', p) = ParamGet(search, p)
          /\ \A k \in 1..Len(entries) :
               /\ entries[k].value.type = "null" =>
                    ParamGet(search', entries[k].key) = Absent
               /\ entries[k].value.type = "array" =>
                    ParamGet(search', entries[k].key)
                      = (IF FilterNonBlank(entries[k].value.val) = <<>> THEN Absent
                         ELSE Join(FilterNonBlank(entries[k].value.val), ","))]_vars

\* an array with blank entries was written to 'favorites' and null to
\* 'hidden' while 'scroll' kept its value under a longer path
BatchUpdateTouchesNamedOnlyWitness ==
  /\ lastOp = "batchUpdate" /\ pathname = "/colors/"
  /\ input.arg = <<Entry("favorites", ArrayOf(<<<<" ">>, <<"a">>, <<>>, <<"b">>>>)),
                   Entry("hidden", Null)>>
  /\ ParamGet(search, "favorites") = <<"a", ",", "b">>
  /\ ParamGet(search, "hidden") = Absent
  /\ ParamGet(search, "scroll") = <<"1", ",", "2">>

\* the one batchUpdate of a mutating call: both parameters written from the
\* sets as the call leaves them
WrittenTogether ==
  search' = batchUpdateEntries(search,
              <<Entry("favorites",
                      ArrayOf(_consolidateFavoriteIds(favorites', hidden', colorModel))),
                Entry("hidden",
                      ArrayOf(_consolidateHiddenIds(hidden', favorites', colorModel)))>>)

\* C22: every mutating AppState call makes one history mutation that covers
\* both the favorites and the hidden parameter, and that mutation is a
\* replaceState: the number of history entries stays what it was at
\* construction, however many mutations are made.
HistoryNeverGrows ==
  [][(lastOp' \in FavoriteOps \cup HiddenOps) =>
       (WrittenTogether /\ historyLen' = historyLen /\ historyLen' = 1)]_vars

\* after a bulk hide both parameters are written and the history has its
\* one entry
HistoryNeverGrowsWitness ==
  /\ lastOp = "addMultipleHidden" /\ historyLen = 1
  /\ favorites = <<Id30>> /\ hidden = <<Id10, Id20>>
  /\ ParamGet(search, "favorites") # Absent
  /\ ParamGet(search, "hidden") # Absent

\* ---------------------------------------------------------------------------
\* Command development: the commands of src/commands on an AppState
\* ---------------------------------------------------------------------------
UpperCase == <<"A", "B", "C", "D", "E", "F", "G", "H", "I", "J", "K", "L", "M",
               "N", "O", "P", "Q", "R", "S", "T", "U", "V", "W", "X", "Y", "Z">>
LowerCase == <<"a", "b", "c", "d", "e", "f", "g", "h", "i", "j", "k", "l", "m",
               "n", "o", "p", "q", "r", "s", "t", "u", "v", "w", "x", "y", "z">>

\* s.toLowerCase() for ASCII letters
toLowerCase(s) ==
  [i \in 1..Len(s) |->
     IF \E k \in 1..26 : UpperCase[k] = s[i]
     THEN LowerCase[CHOOSE k \in 1..26 : UpperCase[k] = s[i]]
     ELSE s[i]]

\* some(name => name.toLowerCase() === target.toLowerCase())
ListsName(names, target) ==
  \E k \in 1..Len(names) : toLowerCase(names[k]) = toLowerCase(target)

getFamilyColors(colorData, familyName) ==
  SelectSeq(colorData, LAMBDA color :
    ~color.archived /\ ListsName(color.colorFamilyNames, familyName))

getCategoryColors(colorData, categoryName) ==
  SelectSeq(colorData, LAMBDA color :
    ~color.archived /\ ListsName(color.brandedCollectionNames, categoryName))

FamilyIdPrefix == <<"f", "a", "m", "i", "l", "y", "-">>
CategoryIdPrefix == <<"c", "a", "t", "e", "g", "o", "r", "y", "-">>

\* getColorsForId(id, () => groupName)
getColorsForId(colorData, id, groupName) ==
  IF StartsWith(id, FamilyIdPrefix) THEN getFamilyColors(colorData, groupName)
  ELSE IF StartsWith(id, CategoryIdPrefix) THEN getCategoryColors(colorData, groupName)
  ELSE <<>>

\* the group tiles of the page: the id of the tile and the name it shows
FamilyTiles == {<<FamilyIdPrefix \o toLowerCase(F), F>> : F \in {Red, Blue}}
CategoryTiles == {<<CategoryIdPrefix \o toLowerCase(C), C>> : C \in {Top, Low}}
GroupTiles == FamilyTiles \cup CategoryTiles

NoCommand == [kind |-> "none"]

\* an AppState with a catalog after any use of the page, no command made yet
CommandsInit ==
  /\ colorModel \in Catalogs
  /\ favorites \in SubLists(<<Id10, Id20, Id30>>)
  /\ hidden \in SubLists(<<Id10, Id20, Id30>>)
  /\ search = syncToURL([p \in ParamNames |-> Absent], favorites, hidden, colorModel)
  /\ pathname = RootPath
  /\ historyLen = 1
  /\ lastOp = "none"
  /\ input = NoCommand
  /\ middle = NoValue
  /\ output = NoValue
  /\ pc = "idle"

\* the tail of the AppState method a command calls
CommandSync(op) ==
  /\ search' = syncToURL(search, favorites', hidden', colorModel)
  /\ pathname' = pathname
  /\ historyLen' = HistoryAfter(historyLen, TRUE)
  /\ lastOp' = op
  /\ UNCHANGED <<colorModel, middle, output>>

\* every(color => set.includes(color.id))
AllIn(colors, set) == \A k \in 1..Len(colors) : colors[k].id \in Range(set)

\* BulkFavoriteCommand.execute()
BulkFavoriteExecute(groupId, groupName) ==
  /\ pc = "idle"
  /\ LET groupColors == getColorsForId(colorModel, groupId, groupName)
         allFavorited == AllIn(groupColors, favorites)
         colorIds == ColorIds(groupColors)
     IN /\ input' = [kind |-> "BulkFavoriteCommand", groupId |-> groupId,
                     groupName |-> groupName, previous |-> favorites,
                     wasAdding |-> ~allFavorited, colorIds |-> colorIds]
        /\ favorites' = BulkApplied(favorites, colorIds,
                                    IF allFavorited THEN "remove" ELSE "add")
  /\ hidden' = hidden
  /\ pc' = "executed"
  /\ CommandSync("BulkFavoriteCommand.execute")

\* BulkFavoriteCommand.undo()
BulkFavoriteUndo ==
  /\ pc = "executed" /\ input.kind = "BulkFavoriteCommand"
  /\ favorites' = BulkApplied(favorites, input.colorIds,
                              IF input.wasAdding THEN "remove" ELSE "add")
  /\ hidden' = hidden
  /\ pc' = "undone"
  /\ input' = input
  /\ CommandSync("BulkFavoriteCommand.undo")

\* BulkHideCommand.execute()
BulkHideExecute(groupId, groupName) ==
  /\ pc = "idle"
  /\ LET groupColors == getColorsForId(colorModel, groupId, groupName)
         allHidden == AllIn(groupColors, hidden)
         colorIds == ColorIds(groupColors)
     IN /\ input' = [kind |-> "BulkHideCommand", groupId |-> groupId,
                     groupName |-> groupName, previous |-> hidden,
                     wasAdding |-> ~allHidden, colorIds |-> colorIds]
        /\ hidden' = BulkApplied(hidden, colorIds, IF allHidden THEN "remove" ELSE "add")
  /\ favorites' = favorites
  /\ pc' = "executed"
  /\ CommandSync("BulkHideCommand.execute")

\* BulkHideCommand.undo()
BulkHideUndo ==
  /\ pc = "executed" /\ input.kind = "BulkHideCommand"
  /\ hidden' = BulkApplied(hidden, input.colorIds,
                           IF input.wasAdding THEN "remove" ELSE "add")
  /\ favorites' = favorites
  /\ pc' = "undone"
  /\ input' = input
  /\ CommandSync("BulkHideCommand.undo")

\* UnhideGroupCommand.execute()
UnhideGroupExecute(groupType, groupName) ==
  /\ pc = "idle"
  /\ LET colors == IF groupType = "family" THEN getFamilyColors(colorModel, groupName)
                   ELSE getCategoryColors(colorModel, groupName)
     IN hidden' = BulkApplied(hidden, ColorIds(colors), "remove")
  /\ favorites' = favorites
  /\ input' = [kind |-> "UnhideGroupCommand", groupType |-> groupType,
               groupName |-> groupName]
  /\ pc' = "executed"
  /\ CommandSync("UnhideGroupCommand.execute")

\* ClearFavoritesCommand.execute()
ClearFavoritesExecute ==
  /\ pc = "idle"
  /\ input' = [kind |-> "ClearFavoritesCommand", previous |-> favorites]
  /\ favorites' = <<>>
  /\ hidden' = hidden
  /\ pc' = "executed"
  /\ CommandSync("ClearFavoritesCommand.execute")

\* an undo that restores nothing
ClearFavoritesUndoNothing ==
  /\ pc = "executed" /\ input.kind = "ClearFavoritesCommand"
  /\ favorites' = favorites
  /\ hidden' = hidden
  /\ pc' = "undone"
  /\ input' = input
  /\ CommandSync("ClearFavoritesCommand.undo")

\* ClearFavoritesCommand.undo()
ClearFavoritesUndo ==
  /\ pc = "executed" /\ input.kind = "ClearFavoritesCommand"
  /\ favorites' = BulkApplied(favorites, input.previous, "add")
  /\ hidden' = hidden
  /\ pc' = "undone"
  /\ input' = input
  /\ CommandSync("ClearFavoritesCommand.undo")

\* ClearHiddenCommand.execute()
ClearHiddenExecute ==
  /\ pc = "idle"
  /\ input' = [kind |-> "ClearHiddenCommand", previous |-> hidden]
  /\ hidden' = <<>>
  /\ favorites' = favorites
  /\ pc' = "executed"
  /\ CommandSync("ClearHiddenCommand.execute")

\* ClearHiddenCommand.undo()
ClearHiddenUndo ==
  /\ pc = "executed" /\ input.kind = "ClearHiddenCommand"
  /\ hidden' = BulkApplied(hidden, input.previous, "add")
  /\ favorites' = favorites
  /\ pc' = "undone"
  /\ input' = input
  /\ CommandSync("ClearHiddenCommand.undo")

CommandsNext ==
  \/ \E tile \in GroupTiles : BulkFavoriteExecute(tile[1], tile[2])
  \/ BulkFavoriteUndo
  \/ \E tile \in GroupTiles : BulkHideExecute(tile[1], tile[2])
  \/ BulkHideUndo
  \/ \E F \in {Red, Blue} : UnhideGroupExecute("family", F)
  \/ \E C \in {Top, Low} : UnhideGroupExecute("category", C)
  \/ ClearFavoritesExecute
  \/ ClearFavoritesUndo
  \/ ClearHiddenExecute
  \/ ClearHiddenUndo

SpecCommands == CommandsInit /\ [][CommandsNext]_vars

\* the active colors that list family F, but not as their first family
LaterListers(F) ==
  {colorModel[k].id : k \in {j \in ActiveEntries :
      /\ F \in Range(colorModel[j].colorFamilyNames)
      /\ colorModel[j].colorFamilyNames[1] # F}}

\* the step is the bulk favorite, bulk hide or unhide of family F
FamilyCommandOn(F) ==
  \/ /\ lastOp' \in {"BulkFavoriteCommand.execute", "BulkHideCommand.execute"}
     /\ StartsWith(input'.groupId, FamilyIdPrefix)
     /\ input'.groupName = F
  \/ /\ lastOp' = "UnhideGroupCommand.execute"
     /\ input'.groupType = "family"
     /\ input'.groupName = F

\* C23: every family-based operation counts a color as a member of a family
\* only when that family is the first entry of the color's family-name list:
\* the bulk favorite, bulk hide and unhide of a family never touch a color
\* that lists the family in a later position.
FamilyCommandsUsePrimaryFamily ==
  [][\A F \in {Red, Blue} : FamilyCommandOn(F) =>
       \A id \in LaterListers(F) :
         /\ (id \in Range(favorites')) = (id \in Range(favorites))
         /\ (id \in Range(hidden')) = (id \in Range(hidden))]_vars

\* the set a bulk command works on
CommandSet == IF input.kind = "BulkFavoriteCommand" THEN favorites ELSE hidden

\* C25: for BulkFavoriteCommand and BulkHideCommand, execute() followed
\* directly by undo() leaves the favorites (the hidden set) exactly the set it
\* was before execute(), for every prior state, also when some but not all
\* colors of the group were in the set.
BulkUndoRestoresSet ==
  (pc = "undone" /\ input.kind \in {"BulkFavoriteCommand", "BulkHideCommand"}) =>
    Range(CommandSet) = Range(input.previous)

\* C26: for ClearFavoritesCommand and ClearHiddenCommand, execute() empties
\* the set, a directly following undo() gives it back exactly as it was before
\* execute(), and the other set stays as it is through both.
ClearUndoRestoresSet ==
  [][/\ lastOp' = "ClearFavoritesCommand.execute" =>
          (favorites' = <<>> /\ input'.previous = favorites /\ hidden' = hidden)
     /\ lastOp' = "ClearFavoritesCommand.undo" =>
          (favorites' = input.previous /\ hidden' = hidden)
     /\ lastOp' = "ClearHiddenCommand.execute" =>
          (hidden' = <<>> /\ input'.previous = hidden /\ favorites' = favorites)
     /\ lastOp' = "ClearHiddenCommand.undo" =>
          (hidden' = input.previous /\ favorites' = favorites)]_vars

\* two favorites were cleared and brought back while a color stayed hidden
ClearUndoRestoresSetWitness ==
  /\ pc = "undone" /\ input.kind = "ClearFavoritesCommand"
  /\ input.previous = <<Id10, Id30>>
  /\ favorites = <<Id10, Id30>>
  /\ hidden = <<Id20>>

FlipsExactly(before, after, id) ==
  /\ (id \in Range(after)) # (id \in Range(before))
  /\ \A other \in (Range(before) \cup Range(after) \cup ArgIds) \ {id} :
       (other \in Range(after)) = (other \in Range(before))
  /\ Range(Toggled(after, id)) = Range(before)

\* C27: toggleFavorite(id) and toggleHidden(id) flip the membership of exactly
\* id in their set and leave every other id as it was; toggling the same id a
\* second time gives back the set of before the first toggle.
ToggleFlipsOne ==
  [][/\ lastOp' = "toggleFavorite" =>
          \E id \in ArgIds : FlipsExactly(favorites, favorites', id)
     /\ lastOp' = "toggleHidden" =>
          \E id \in ArgIds : FlipsExactly(hidden, hidden', id)]_vars

\* a toggle took one id out of a set that holds others
ToggleFlipsOneWitness ==
  /\ lastOp = "toggleHidden"
  /\ Id10 \in Range(hidden) /\ Id30 \in Range(hidden) /\ Id20 \notin Range(hidden)
  /\ favorites # <<>>

(***************************************************************************)
(* The Base85 alphabet in a query value                                    *)
(***************************************************************************)
\* what location.search holds of a parameter whose value was written into the
\* address as it is: a # starts the fragment, a & starts the next parameter
RECURSIVE RawQueryValue(_)
RawQueryValue(value) ==
  IF Len(value) = 0 \/ value[1] \in {"#", "&"} THEN <<>>
  ELSE <<value[1]>> \o RawQueryValue(Tail(value))

\* URLParameterManager.getScalarParameter on a given query
getScalarParameter(query, paramName) == ParamGet(query, paramName)

\* URLParameterManager.setScalarParameter: the new query
setScalarParameter(query, paramName, value) ==
  Serialize(IF value = <<>> THEN [query EXCEPT ![paramName] = Absent]
            ELSE ParamSet(query, paramName, value))

\* what follows the character under test in the value
Followers == {<<>>, <<"2", "C">>}

\* a value that starts with one character of the alphabet
AlphabetInit ==
  /\ favorites = <<>>
  /\ hidden = <<>>
  /\ colorModel = NoModel
  /\ search = [p \in ParamNames |-> Absent]
  /\ pathname = RootPath
  /\ historyLen = 1
  /\ lastOp = "none"
  /\ \E k \in 1..Len(BASE85_CHARS), rest \in Followers :
       input = [kind |-> "text", arg |-> <<BASE85_CHARS[k]>> \o rest]
  /\ middle = NoValue
  /\ output = NoValue
  /\ pc = "idle"

\* the page is opened at an address that carries the value unescaped
OpenWithRawValue ==
  /\ pc = "idle"
  /\ search' = [search EXCEPT !["favorites"] = RawQueryValue(input.arg)]
  /\ output' = Return(getScalarParameter(search', "favorites"))
  /\ pc' = "opened"
  /\ lastOp' = "getScalarParameter"
  /\ UNCHANGED <<favorites, hidden, colorModel, pathname, historyLen, input, middle>>

\* the program writes the value into the address
WriteValue ==
  /\ pc = "idle"
  /\ search' = setScalarParameter(search, "favorites", input.arg)
  /\ historyLen' = HistoryAfter(historyLen, TRUE)
  /\ output' = Return(search'["favorites"])
  /\ pc' = "written"
  /\ lastOp' = "setScalarParameter"
  /\ UNCHANGED <<favorites, hidden, colorModel, pathname, input, middle>>

AlphabetNext == OpenWithRawValue \/ WriteValue

SpecAlphabet == AlphabetInit /\ [][AlphabetNext]_vars

\* C24: every one of the 85 characters of the Base85 alphabet can stand in a
\* query value as it is: a value written unescaped is read back unchanged,
\* and the serializer has nothing to escape in it.
AlphabetNeedsNoEscape ==
  /\ pc = "opened" => output.val = input.arg
  /\ pc = "written" => output.val = input.arg

(***************************************************************************)
(* decompressIds on three-part payloads as they arrive                     *)
(***************************************************************************)
MaxMask == 3

\* the numeric parts: none, one id, two ids
NumericParts == {<<>>, toBase85(encodeNumericIds(<<String(7)>>).val),
                 toBase85(encodeNumericIds(<<String(7), String(300)>>).val)}

\* the group parts: none, one token, two tokens
GroupParts == {<<>>, FamilyRed, Join(<<FamilyRed, CategoryTop>>, ",")}

\* the position masks
Masks == SeqUpTo({"n", "g"}, MaxMask)

\* numeric.groups.positions
ThreeParts(numericPart, groupPart, mask) ==
  numericPart \o <<".">> \o groupPart \o <<".">> \o mask

PayloadInit ==
  /\ AppIdle
  /\ pc = "start"
  /\ middle = NoValue
  /\ output = NoValue
  /\ \E numericPart \in NumericParts, groupPart \in GroupParts, mask \in Masks :
       input = [kind |-> "payload", arg |-> ThreeParts(numericPart, groupPart, mask)]

\* decompressIds(compressed) on a payload as it arrives
DecompressPayload ==
  /\ pc = "start" /\ input.kind = "payload"
  /\ output' = decompressIds(input.arg)
  /\ pc' = "decompressed"
  /\ UNCHANGED <<input, middle>>
  /\ UNCHANGED appVars

PayloadNext == DecompressPayload

SpecPayload == PayloadInit /\ [][PayloadNext]_vars

\* the tokens that the numeric part and the group part of a payload hold
DecodedTokens(compressed) ==
  LET parts == Split(compressed, ".")
  IN (IF Len(parts[1]) > 0 THEN DecodeNumericPart(parts[1]).val ELSE <<>>)
     \o (IF Len(parts[2]) > 0 THEN Split(parts[2], ",") ELSE <<>>)

\* C29: decompressIds raises an error or returns a list of defined token
\* strings: on a three-part payload whose mask asks for more entries than the
\* payload holds, or whose length differs from the number of decoded tokens,
\* the result has no undefined entry and holds every decoded token.
DecompressGivesDefinedTokens ==
  (pc = "decompressed" /\ ~output.err) =>
    /\ \A k \in 1..Len(output.val) : output.val[k] # Undefined
    /\ Range(DecodedTokens(input.arg)) \subseteq Range(output.val)

\* the bare ids that a token list holds beside the token of their own group,
\* the excluded ids left out
RedundantIds(tokens, exclusionIds) ==
  {id \in Range(tokens) \ Range(exclusionIds) :
     \E token \in Range(tokens) : IsGroupToken(token) /\ id \in TokenIds(token)}

\* C30: the token list that _consolidateColorIds returns is never redundant:
\* it holds no group token together with the bare id of a non-excluded member
\* of that group, and no token twice.
ConsolidatedIsNotRedundant ==
  /\ (pc = "consolidated" /\ colorModel # NoModel) =>
       /\ RedundantIds(middle.val, input.excl) = {}
       /\ \A i, j \in 1..Len(middle.val) : middle.val[i] = middle.val[j] => i = j
  /\ (pc = "reconsolidated" /\ colorModel # NoModel) =>
       /\ RedundantIds(output.val, input.excl) = {}
       /\ \A i, j \in 1..Len(output.val) : output.val[i] = output.val[j] => i = j

\* a family and a category were folded into tokens, and an excluded member
\* and a foreign id stay beside them
ConsolidatedIsNotRedundantWitness ==
  /\ pc = "consolidated" /\ colorModel = CatalogA
  /\ input.arg = <<Id10, Id20, Id99>>
  /\ input.excl = <<Id20>>
  /\ Range(middle.val) = {Id20, Id99, FamilyPrefix \o Red, CategoryPrefix \o Top}

(***************************************************************************)
(* The loops of the codec, one iteration per step                          *)
(***************************************************************************)
MaxBuffer == 5

\* the marker bytes (0 is also a single-byte number) and a continuation byte
StepBytes == {0, 128, 254}

\* two characters of the alphabet and one outside it
StepChars == {"0", "~", "."}

StepsInit ==
  /\ AppIdle
  /\ pc = "start"
  /\ middle = NoValue
  /\ output = NoValue
  /\ \/ input \in [kind : {"buffer"}, arg : SeqUpTo(StepBytes, MaxBuffer)]
     \/ input \in [kind : {"ids"}, arg : SeqUpTo(RawIds, MaxIds)]
     \/ input \in [kind : {"text"}, arg : SeqUpTo(StepChars, MaxBuffer)]
     \/ input \in [kind : {"tokens"}, arg : SeqUpTo(MixedTokens, MaxIds)]
     \/ \E numericPart \in NumericParts, groupPart \in GroupParts, mask \in Masks :
          input = [kind |-> "payload", arg |-> ThreeParts(numericPart, groupPart, mask)]

\* a call that runs to its end in one step
Finish(op, result) ==
  /\ output' = result
  /\ pc' = IF result.err THEN "thrown" ELSE "returned"
  /\ lastOp' = op
  /\ UNCHANGED <<favorites, hidden, colorModel, search, pathname, historyLen>>

\* one more iteration of a loop
Continue(op, label, loopState) ==
  /\ middle' = loopState
  /\ pc' = label
  /\ lastOp' = op
  /\ UNCHANGED <<favorites, hidden, colorModel, search, pathname, historyLen, output>>

\* decodeNumericIds(buffer) up to its outer loop
DecodeEnter ==
  /\ pc = "start" /\ input.kind = "buffer"
  /\ UNCHANGED input
  /\ IF Len(input.arg) = 0
     THEN Finish("decodeNumericIds", Return(<<>>)) /\ UNCHANGED middle
     ELSE Continue("decodeNumericIds", "outer",
                   [i |-> 1, num |-> 0, byteCount |-> 0, bright |-> FALSE, ids |-> <<>>])

DecodedId(bright, num) == IF bright THEN BrightPrefix \o String(num) ELSE String(num)

\* an iteration of the outer loop that reads nothing
OuterStepStalled ==
  /\ pc = "outer" /\ lastOp = "decodeNumericIds" /\ middle.i <= Len(input.arg)
  /\ UNCHANGED vars

\* one iteration of while (i < buffer.length), up to the inner loop
OuterStep ==
  /\ pc = "outer" /\ lastOp = "decodeNumericIds" /\ middle.i <= Len(input.arg)
  /\ UNCHANGED input
  /\ LET buffer == input.arg
         i == middle.i
         hasBrightPrefix == /\ buffer[i] = MarkerByte1
                            /\ i + 1 <= Len(buffer)
                            /\ buffer[i + 1] = MarkerByte2
         j == IF hasBrightPrefix THEN i + 2 ELSE i
     IN IF j > Len(buffer)
        THEN Finish("decodeNumericIds", Throw) /\ UNCHANGED middle
        ELSE IF buffer[j] < 128
        THEN Continue("decodeNumericIds", "outer",
                      [middle EXCEPT !.i = j + 1,
                                     !.ids = Append(@, DecodedId(hasBrightPrefix, buffer[j]))])
        ELSE Continue("decodeNumericIds", "inner",
                      [middle EXCEPT !.i = j + 1, !.num = buffer[j] % 128,
                                     !.byteCount = 1, !.bright = hasBrightPrefix])

\* the end of the outer loop: return ids
OuterExit ==
  /\ pc = "outer" /\ lastOp = "decodeNumericIds" /\ middle.i > Len(input.arg)
  /\ UNCHANGED <<input, middle>>
  /\ Finish("decodeNumericIds", Return(middle.ids))

\* one iteration of while (true)
InnerStep ==
  /\ pc = "inner"
  /\ UNCHANGED input
  /\ IF middle.i > Len(input.arg)
     THEN Finish("decodeNumericIds", Throw) /\ UNCHANGED middle
     ELSE LET byte == input.arg[middle.i]
              num == ShiftIn(middle.num, byte)
              byteCount == middle.byteCount + 1
          IN IF byte < 128
             THEN Continue("decodeNumericIds", "outer",
                           [middle EXCEPT !.i = @ + 1, !.num = num, !.byteCount = byteCount,
                                          !.ids = Append(@, DecodedId(middle.bright, num))])
             ELSE IF byteCount > 4
             THEN Finish("decodeNumericIds", Throw) /\ UNCHANGED middle
             ELSE Continue("decodeNumericIds", "inner",
                           [middle EXCEPT !.i = @ + 1, !.num = num, !.byteCount = byteCount])

\* toBase85(buffer) up to its loop over the chunks
Base85Enter ==
  /\ pc = "start" /\ input.kind = "buffer"
  /\ UNCHANGED input
  /\ IF Len(input.arg) = 0
     THEN Finish("toBase85", Return(<<>>)) /\ UNCHANGED middle
     ELSE Continue("toBase85", "chunk", [i |-> 1, result |-> <<>>])

\* one iteration of for (i = 0; i < buffer.length; i += 4)
ChunkStep ==
  /\ pc = "chunk" /\ middle.i <= Len(input.arg)
  /\ UNCHANGED input
  /\ LET byteCount == Min(4, Len(input.arg) - middle.i + 1)
         value == PackBytes(input.arg, middle.i, byteCount, Wide(0))
     IN Continue("toBase85", "chunk",
                 [i |-> middle.i + 4,
                  result |-> middle.result \o Base85Digits(value, byteCount + 1)])

\* the end of the loop over the chunks: return result
ChunkExit ==
  /\ pc = "chunk" /\ middle.i > Len(input.arg)
  /\ UNCHANGED <<input, middle>>
  /\ Finish("toBase85", Return(middle.result))

\* encodeNumericIds(ids)
CallEncode ==
  /\ pc = "start" /\ input.kind = "ids"
  /\ UNCHANGED <<input, middle>>
  /\ \E result \in {encodeNumericIds(input.arg)} : Finish("encodeNumericIds", result)

\* fromBase85(str)
CallFromBase85 ==
  /\ pc = "start" /\ input.kind = "text"
  /\ UNCHANGED <<input, middle>>
  /\ \E result \in {fromBase85(input.arg)} : Finish("fromBase85", result)

\* compressIds(ids) up to the end of the loop that separates the tokens
CompressEnter ==
  /\ pc = "start" /\ input.kind = "tokens"
  /\ UNCHANGED input
  /\ IF Len(input.arg) = 0
     THEN Finish("compressIds", Return(<<>>)) /\ UNCHANGED middle
     ELSE Continue("compressIds", "separated",
                   [numericIds |-> SelectTokens(input.arg, FALSE),
                    groupIds |-> SelectTokens(input.arg, TRUE),
                    positions |-> Positions(input.arg),
                    binary |-> <<>>])

\* compressIds: the call of encodeNumericIds
CompressEncode ==
  /\ pc = "separated"
  /\ UNCHANGED input
  /\ \E binary \in {IF Len(middle.numericIds) > 0 THEN encodeNumericIds(middle.numericIds)
                      ELSE Return(<<>>)} :
       IF binary.err
       THEN Finish("compressIds", Throw) /\ UNCHANGED middle
       ELSE Continue("compressIds", "packed", [middle EXCEPT !.binary = binary.val])

\* compressIds: the call of toBase85 and the joining of the parts
CompressJoin ==
  /\ pc = "packed"
  /\ UNCHANGED <<input, middle>>
  /\ LET numericPart == IF Len(middle.numericIds) > 0 THEN toBase85(middle.binary) ELSE <<>>
         groupPart == IF Len(middle.groupIds) > 0
                      THEN <<".">> \o Join(middle.groupIds, ",") ELSE <<>>
         maskPart == IF Len(middle.numericIds) > 0 /\ Len(middle.groupIds) > 0
                     THEN <<".">> \o middle.positions ELSE <<>>
     IN Finish("compressIds", Return(numericPart \o groupPart \o maskPart))

\* decompressIds(compressed) up to the split on the dots
DecompressEnter ==
  /\ pc = "start" /\ input.kind = "payload"
  /\ UNCHANGED input
  /\ IF Len(input.arg) = 0
     THEN Finish("decompressIds", Return(<<>>)) /\ UNCHANGED middle
     ELSE Continue("decompressIds", "split",
                   [parts |-> Split(input.arg, "."), binary |-> <<>>, numericIds |-> <<>>])

\* decompressIds: the call of fromBase85
DecompressUnbase ==
  /\ pc = "split"
  /\ UNCHANGED input
  /\ \E binary \in {IF Len(middle.parts[1]) > 0 THEN fromBase85(middle.parts[1])
                      ELSE Return(<<>>)} :
       IF binary.err
       THEN Finish("decompressIds", Throw) /\ UNCHANGED middle
       ELSE Continue("decompressIds", "unbased", [middle EXCEPT !.binary = binary.val])

\* decompressIds: the call of decodeNumericIds
DecompressDecode ==
  /\ pc = "unbased"
  /\ UNCHANGED input
  /\ \E numericIds \in {decodeNumericIds(middle.binary)} :
       IF numericIds.err
       THEN Finish("decompressIds", Throw) /\ UNCHANGED middle
       ELSE Continue("decompressIds", "numbers", [middle EXCEPT !.numericIds = numericIds.val])

\* decompressIds: the group part and the loop over the position mask
DecompressRebuild ==
  /\ pc = "numbers"
  /\ UNCHANGED <<input, middle>>
  /\ LET parts == middle.parts
         groupIds == IF Len(parts) >= 2 /\ Len(parts[2]) > 0
                     THEN Split(parts[2], ",") ELSE <<>>
     IN Finish("decompressIds",
               IF Len(parts) = 1 THEN Return(middle.numericIds)
               ELSE IF Len(parts) = 2 THEN Return(middle.numericIds \o groupIds)
               ELSE Return(Reconstruct(parts[3], 1, middle.numericIds, groupIds, <<0, 0>>)))

StepsNext ==
  \/ DecodeEnter
  \/ OuterStep
  \/ OuterExit
  \/ InnerStep
  \/ Base85Enter
  \/ ChunkStep
  \/ ChunkExit
  \/ CallEncode
  \/ CallFromBase85
  \/ CompressEnter
  \/ CompressEncode
  \/ CompressJoin
  \/ DecompressEnter
  \/ DecompressUnbase
  \/ DecompressDecode
  \/ DecompressRebuild

SpecSteps == StepsInit /\ [][StepsNext]_vars

\* a call that has begun goes on: JavaScript runs a function to its end
SpecStepsFair == SpecSteps /\ WF_vars(StepsNext)

Ended == pc \in {"returned", "thrown"}

\* C28: each of the six codec functions ends on every input, with a value or
\* with an error; every iteration of the decoder's outer loop reads at least
\* one byte, and its inner loop runs at most four times for one number.
CodecCallsTerminate ==
  /\ <>Ended
  /\ [](Ended => (output.err <=> pc = "thrown"))
  /\ [](Ended /\ lastOp = "decodeNumericIds" => output = decodeNumericIds(input.arg))
  /\ [](Ended /\ lastOp = "toBase85" => output = Return(toBase85(input.arg)))
  /\ [](Ended /\ lastOp = "compressIds" => output = compressIds(input.arg))
  /\ [](Ended /\ lastOp = "decompressIds" => output = decompressIds(input.arg))
  /\ [](pc = "inner" => middle.byteCount \in 1..4)
  /\ [][pc = "outer" /\ pc' \in {"outer", "inner"} => middle'.i > middle.i]_vars
  /\ [][pc = "inner" /\ ~Ended' => middle'.i = middle.i + 1]_vars
  /\ [][pc = "chunk" /\ ~Ended' => middle'.i > middle.i]_vars

\* a marked number, a two-byte number and the full buffer were read
CodecCallsTerminateWitness ==
  /\ pc = "returned" /\ lastOp = "decodeNumericIds"
  /\ input.arg = <<254, 0, 128, 0, 0>>
  /\ output.val = <<BrightPrefix \o String(0), String(0)>>

====
